---- MODULE Spec2Model ----
(***************************************************************************)
(* Learning Path Graph Engine: the node-type registry and graph validator  *)
(* (nodeTypes.js), the visual editor's graph model and pointer/keyboard    *)
(* interaction (static/editor.js) and the two players' linearization       *)
(* (static/player.js).                                                     *)
(***************************************************************************)
EXTENDS Integers, Sequences, FiniteSets, TLC

(***************************************************************************)
(* Bounds of the model.                                                    *)
(***************************************************************************)
\* most nodes the editor model holds at once
MaxNodes == 2
\* Date.now() takes the values 0..MaxTime
MaxTime == 1
\* Math.random() suffixes take the values 1..NumRand
NumRand == 1
\* node coordinates stay within 0..GridLimit
GridLimit == 10

(***************************************************************************)
(* Program constants.                                                      *)
(***************************************************************************)
NODE_W == 180
NODE_H == 54

\* JavaScript null / undefined
Null == <<>>

(***************************************************************************)
(* nodeTypes.js: the registry.  A field record carries `required` and      *)
(* `default` only where the source declares them.                          *)
(***************************************************************************)
NODE_TYPES ==
  [ start |->
      [ id |-> "start", label |-> "Start", category |-> "control", maxInstances |-> 1,
        outputs |-> <<"next">>, inputs |-> <<>>, fields |-> <<>> ],
    end |->
      [ id |-> "end", label |-> "End", category |-> "control", maxInstances |-> 1,
        outputs |-> <<>>, inputs |-> <<"prev">>,
        fields |-> << [name |-> "completionMessage", type |-> "text", label |-> "Completion Message",
                       default |-> "Congratulations! You have completed this learning path."] >> ],
    theory |->
      [ id |-> "theory", label |-> "Theory Unit", category |-> "content",
        outputs |-> <<"next">>, inputs |-> <<"prev">>,
        fields |-> << [name |-> "title", type |-> "text", label |-> "Title", required |-> TRUE],
                      [name |-> "description", type |-> "textarea", label |-> "Description"],
                      [name |-> "content", type |-> "richtext", label |-> "Content (HTML)"],
                      [name |-> "estimatedMinutes", type |-> "number", label |-> "Estimated Duration (min)", default |-> 15],
                      [name |-> "passingScore", type |-> "number", label |-> "Passing Score (%)", default |-> 0] >> ],
    guidedLab |->
      [ id |-> "guidedLab", label |-> "Guided Lab", category |-> "content",
        outputs |-> <<"next">>, inputs |-> <<"prev">>,
        fields |-> << [name |-> "title", type |-> "text", label |-> "Title", required |-> TRUE],
                      [name |-> "description", type |-> "textarea", label |-> "Description"],
                      [name |-> "labUrl", type |-> "url", label |-> "Lab Environment URL"],
                      [name |-> "instructions", type |-> "richtext", label |-> "Instructions (HTML)"],
                      [name |-> "estimatedMinutes", type |-> "number", label |-> "Estimated Duration (min)", default |-> 45],
                      [name |-> "passingScore", type |-> "number", label |-> "Passing Score (%)", default |-> 70] >> ],
    wiki |->
      [ id |-> "wiki", label |-> "Wiki Page", category |-> "content",
        outputs |-> <<"next">>, inputs |-> <<"prev">>,
        fields |-> << [name |-> "title", type |-> "text", label |-> "Title", required |-> TRUE],
                      [name |-> "description", type |-> "textarea", label |-> "Description"],
                      [name |-> "content", type |-> "richtext", label |-> "Wiki Content (HTML)"],
                      [name |-> "estimatedMinutes", type |-> "number", label |-> "Estimated Duration (min)", default |-> 10] >> ],
    url |->
      [ id |-> "url", label |-> "Website URL", category |-> "content",
        outputs |-> <<"next">>, inputs |-> <<"prev">>,
        fields |-> << [name |-> "title", type |-> "text", label |-> "Title", required |-> TRUE],
                      [name |-> "description", type |-> "textarea", label |-> "Description"],
                      [name |-> "url", type |-> "url", label |-> "URL", required |-> TRUE],
                      [name |-> "openInNewTab", type |-> "checkbox", label |-> "Open in new tab", default |-> FALSE],
                      [name |-> "estimatedMinutes", type |-> "number", label |-> "Estimated Duration (min)", default |-> 10] >> ],
    h5p |->
      [ id |-> "h5p", label |-> "H5P Package", category |-> "package",
        outputs |-> <<"next">>, inputs |-> <<"prev">>,
        fields |-> << [name |-> "title", type |-> "text", label |-> "Title", required |-> TRUE],
                      [name |-> "description", type |-> "textarea", label |-> "Description"],
                      [name |-> "h5pContentId", type |-> "h5p-picker", label |-> "H5P Content"],
                      [name |-> "estimatedMinutes", type |-> "number", label |-> "Estimated Duration (min)", default |-> 20],
                      [name |-> "passingScore", type |-> "number", label |-> "Passing Score (%)", default |-> 70] >> ],
    cmi5 |->
      [ id |-> "cmi5", label |-> "cmi5 Package", category |-> "package",
        outputs |-> <<"next">>, inputs |-> <<"prev">>,
        fields |-> << [name |-> "title", type |-> "text", label |-> "Title", required |-> TRUE],
                      [name |-> "description", type |-> "textarea", label |-> "Description"],
                      [name |-> "packageUrl", type |-> "url", label |-> "Package URL / Launch URL", required |-> TRUE],
                      [name |-> "activityId", type |-> "text", label |-> "Activity ID (IRI)"],
                      [name |-> "moveOn", type |-> "select", label |-> "Move On Criteria", default |-> "CompletedOrPassed"],
                      [name |-> "masteryScore", type |-> "number", label |-> "Mastery Score (%)", default |-> 70],
                      [name |-> "estimatedMinutes", type |-> "number", label |-> "Estimated Duration (min)", default |-> 30] >> ],
    scorm |->
      [ id |-> "scorm", label |-> "SCORM Package", category |-> "package",
        outputs |-> <<"next">>, inputs |-> <<"prev">>,
        fields |-> << [name |-> "title", type |-> "text", label |-> "Title", required |-> TRUE],
                      [name |-> "description", type |-> "textarea", label |-> "Description"],
                      [name |-> "packageUrl", type |-> "url", label |-> "SCORM Package URL / Launch URL", required |-> TRUE],
                      [name |-> "scormVersion", type |-> "select", label |-> "SCORM Version", default |-> "2004 4th Edition"],
                      [name |-> "passingScore", type |-> "number", label |-> "Passing Score (%)", default |-> 70],
                      [name |-> "estimatedMinutes", type |-> "number", label |-> "Estimated Duration (min)", default |-> 30] >> ],
    gate |->
      [ id |-> "gate", label |-> "Gate (Pass Required)", category |-> "control",
        outputs |-> <<"pass", "fail">>, inputs |-> <<"prev">>,
        fields |-> << [name |-> "title", type |-> "text", label |-> "Gate Title", default |-> "Progress Check"],
                      [name |-> "requiredScore", type |-> "number", label |-> "Required Score (%)", default |-> 70] >> ],
    branch |->
      [ id |-> "branch", label |-> "Branch", category |-> "control",
        outputs |-> <<"pathA", "pathB">>, inputs |-> <<"prev">>,
        fields |-> << [name |-> "title", type |-> "text", label |-> "Branch Title"],
                      [name |-> "conditionType", type |-> "select", label |-> "Condition", default |-> "learner-choice"],
                      [name |-> "pathALabel", type |-> "text", label |-> "Path A Label", default |-> "Path A"],
                      [name |-> "pathBLabel", type |-> "text", label |-> "Path B Label", default |-> "Path B"] >> ] ]

\* nodeTypes[type] is defined
HasType(type) == type \in DOMAIN NODE_TYPES

\* the elements of a sequence
Range(s) == { s[i] : i \in DOMAIN s }

\* Math.round(v / 10) * 10 (Math.round rounds halves up)
Round10(v) == ((v + 5) \div 10) * 10


(***************************************************************************)
(* State.                                                                  *)
(*   editor.js:   nodes, connections (pathData.nodes / .connections),      *)
(*                selectedNodeId, panel (the rendered properties panel),   *)
(*                dragState, connectState, panState, dirty; lastOp records *)
(*                the graph operation the last handler called; tempLayer   *)
(*                holds the connection-temp curves that are children of    *)
(*                the connections layer; zoom is the zoom factor.          *)
(*   nodeTypes.js: doc is the path handed to validatePath, result its      *)
(*                answer.                                                  *)
(*   storage.js:  store maps a file name of the paths directory to the text *)
(*                of the file, uuids holds the ids crypto.randomUUID has   *)
(*                returned; routes.js: response is the answer to the last  *)
(*                request, with the request it answers; updates holds the  *)
(*                calls of update that have read the file, with what they  *)
(*                read, and those that have written it.                    *)
(*   editor.js:   pathId is the id of the edited path, saves holds the     *)
(*                save requests under way, acked the document of the last  *)
(*                save the store has acknowledged.                         *)
(*   player.js:   pathData is the loaded path, orderedNodesA the order of  *)
(*                buildNodeOrder, orderedNodesB of buildTraversalOrder;    *)
(*                launched holds the ids of the nodes a launched statement *)
(*                was emitted for in the session.                          *)
(***************************************************************************)
VARIABLES nodes, connections, selectedNodeId, panel, dragState, connectState,
          panState, dirty, lastOp, tempLayer, zoom,
          doc, result,
          pathData, playerLoaded, orderedNodesA, orderedNodesB, followedA, followedB,
          script, currentIndex, nodeStates, nodeStatus, emitted, posted, inFlight,
          progressBar, lastAction, launched,
          lrsConfig, outcome, promise, requests,
          store, response, uuids,
          updates,
          pathId, saves, acked

graphVars == << nodes, connections, selectedNodeId, panel, dirty >>
modeVars == << dragState, connectState, panState >>
canvasVars == << tempLayer, zoom >>
editorVars == << graphVars, modeVars, canvasVars, lastOp >>
validatorVars == << doc, result >>
linearVars == << pathData, playerLoaded, orderedNodesA, orderedNodesB, followedA, followedB >>
sessionVars == << script, currentIndex, nodeStates, nodeStatus, emitted, posted, inFlight,
                 progressBar, lastAction, launched >>
playerVars == << linearVars, sessionVars >>
trackerVars == << lrsConfig, outcome, promise, requests >>
storeVars == << store, response, uuids >>
saveVars == << pathId, saves, acked >>
callVars == << updates, saveVars >>
vars == << editorVars, validatorVars, playerVars, trackerVars, storeVars, callVars >>

(***************************************************************************)
(* editor.js: graph operations.                                            *)
(***************************************************************************)
\* the node types the palette offers in the model: one per port shape and cap
PaletteTypes == {"start", "end", "theory", "gate"}
\* where the pointer can be (world coordinates)
PointerPts == { <<90, 27>> }
\* the fields edited in the properties panel and the values typed
EditedFields == {"title"}
FieldValues == {"Intro"}

\* pathData.nodes.find((n) => n.id === id): index of the first match, 0 if none
FindNode(ns, id) ==
  IF \E i \in DOMAIN ns : ns[i].id = id
    THEN CHOOSE i \in DOMAIN ns : ns[i].id = id /\ \A j \in 1..(i-1) : ns[j].id # id
    ELSE 0

\* pathData.nodes.filter((n) => n.type === type).length
CountType(ns, type) == Cardinality({ i \in DOMAIN ns : ns[i].type = type })

\* (variant of the capacity check with > for >=)
AtCapacityOffByOne(ns, type) ==
  /\ "maxInstances" \in DOMAIN NODE_TYPES[type]
  /\ NODE_TYPES[type].maxInstances # 0
  /\ CountType(ns, type) > NODE_TYPES[type].maxInstances

\* addNode's capacity check: nt.maxInstances set and count >= nt.maxInstances
AtCapacity(ns, type) ==
  /\ "maxInstances" \in DOMAIN NODE_TYPES[type]
  /\ NODE_TYPES[type].maxInstances # 0
  /\ CountType(ns, type) >= NODE_TYPES[type].maxInstances

\* 'node_' + Date.now() + '_' + Math.random().toString(36).substr(2, 6)
NodeId(t, r) == <<"node", t, r>>

\* the data of a new node: every field whose default is not undefined
DefaultData(type) ==
  LET fs == NODE_TYPES[type].fields
      withDefault == { i \in DOMAIN fs : "default" \in DOMAIN fs[i] }
  IN  [ name \in { fs[i].name : i \in withDefault } |->
          fs[CHOOSE i \in withDefault : fs[i].name = name].default ]

\* the node object addNode builds
NewNode(id, type, x, y) ==
  [ id |-> id, type |-> type, x |-> Round10(x), y |-> Round10(y),
    data |-> DefaultData(type) ]

\* renderProperties(): the panel as rendered for selection sel over nodes ns;
\* Null when the panel is closed.  deleteBtn: the Delete Node button is shown.
RenderProperties(sel, ns) ==
  IF sel = Null \/ FindNode(ns, sel) = 0
    THEN Null
    ELSE LET node == ns[FindNode(ns, sel)]
         IN  [ nodeId |-> node.id, type |-> node.type,
               deleteBtn |-> (node.type # "start" \/ CountType(ns, "start") > 1) ]

\* deleteNode: the nodes and the connections that stay
NodesAfterDelete(ns, nodeId) == SelectSeq(ns, LAMBDA n : n.id # nodeId)
\* (variant of the cascade that forgets the connections ending at the node)
ConnectionsAfterDeleteFromOnly(cs, nodeId) == SelectSeq(cs, LAMBDA c : c.from # nodeId)
ConnectionsAfterDelete(cs, nodeId) ==
  SelectSeq(cs, LAMBDA c : c.from # nodeId /\ c.to # nodeId)

\* addConnection: the duplicate check and the input-port check
ConnExists(cs, fromId, fromPort, toId, toPort) ==
  \E i \in DOMAIN cs : /\ cs[i].from = fromId /\ cs[i].fromPort = fromPort
                       /\ cs[i].to = toId /\ cs[i].toPort = toPort
\* (variants of the input-port check, used to test the claims' sensitivity)
InputTakenNoCheck(cs, toId, toPort) == FALSE
InputTakenWrongEnd(cs, toId, toPort) ==
  \E i \in DOMAIN cs : cs[i].from = toId /\ cs[i].toPort = toPort
InputTaken(cs, toId, toPort) ==
  \E i \in DOMAIN cs : cs[i].to = toId /\ cs[i].toPort = toPort

\* addConnection accepts the connection (it reaches the push)
ConnAccepted(cs, fromId, fromPort, toId, toPort) ==
  /\ ~ConnExists(cs, fromId, fromPort, toId, toPort)
  /\ ~InputTaken(cs, toId, toPort)

\* the connection list after addConnection
ConnectionsAfterAdd(cs, fromId, fromPort, toId, toPort) ==
  IF ConnAccepted(cs, fromId, fromPort, toId, toPort)
    THEN Append(cs, [from |-> fromId, fromPort |-> fromPort, to |-> toId, toPort |-> toPort])
    ELSE cs

\* (variant of the filter that compares the two node ids only)
ConnectionsAfterRemoveAnyPort(cs, fromId, fromPort, toId, toPort) ==
  SelectSeq(cs, LAMBDA c : ~(c.from = fromId /\ c.to = toId))

\* the connection list after removeConnection
ConnectionsAfterRemove(cs, fromId, fromPort, toId, toPort) ==
  SelectSeq(cs, LAMBDA c : ~(/\ c.from = fromId /\ c.fromPort = fromPort
                             /\ c.to = toId /\ c.toPort = toPort))

\* (variant of the move that gives every node the new position)
NodesAfterMoveAll(ns, i, x, y) == [ k \in DOMAIN ns |-> [ns[k] EXCEPT !.x = x, !.y = y] ]

\* node.x = ...; node.y = ... on the node found, ns[i]
NodesAfterMove(ns, i, x, y) == [ns EXCEPT ![i].x = x, ![i].y = y]

\* the zoom factor is kept in thousandths
ZoomScale == 1000

\* node.data[fieldName] = value
DataWith(data, fieldName, value) ==
  [ k \in DOMAIN data \cup {fieldName} |-> IF k = fieldName THEN value ELSE data[k] ]

NoOp == [call |-> "none", args |-> <<>>]

\* most connection-temp curves the connections layer holds at once
MaxTempLines == 2

\* renderConnections(): layer.innerHTML = '' removes every child of the
\* connections layer, the connection-temp curves included
RenderConnections == {}

\* the connection-temp curves in the layer after addConnection, which renders
\* the canvas only when it pushes the connection
LayerAfterAdd(layer, cs, fromId, fromPort, toId, toPort) ==
  IF ConnAccepted(cs, fromId, fromPort, toId, toPort) THEN RenderConnections ELSE layer

\* a curve that is not a child of the layer
NewTempLine(layer) == CHOOSE k \in 1..MaxTempLines : k \notin layer /\ \A j \in 1..(k-1) : j \in layer


(***************************************************************************)
(* editor.js: the operations as the handlers call them.  Each sets the     *)
(* graph, the selection, the panel, dirty and lastOp; the interaction      *)
(* modes are set by the calling handler.                                   *)
(***************************************************************************)
\* selectNode(nodeId), rendering the panel over the nodes ns
SelectNode(nodeId, ns) ==
  /\ selectedNodeId' = nodeId
  /\ panel' = RenderProperties(nodeId, ns)

\* addNode(type, x, y); Date.now() returns t and Math.random() yields r
AddNode(type, x, y, t, r) ==
  IF ~HasType(type) \/ AtCapacity(nodes, type)
    THEN /\ UNCHANGED << graphVars, tempLayer >>
         /\ lastOp' = [call |-> "addNode", args |-> <<type, Null>>]
    ELSE /\ nodes' = Append(nodes, NewNode(NodeId(t, r), type, x, y))
         /\ dirty' = TRUE
         /\ tempLayer' = RenderConnections
         /\ SelectNode(NodeId(t, r), nodes')
         /\ UNCHANGED connections
         /\ lastOp' = [call |-> "addNode", args |-> <<type, NodeId(t, r)>>]

\* (variant of deleteNode that leaves the selection as it is)
DeleteNodeKeepSelection(nodeId) ==
  /\ nodes' = NodesAfterDelete(nodes, nodeId)
  /\ connections' = ConnectionsAfterDelete(connections, nodeId)
  /\ UNCHANGED << selectedNodeId, panel >>
  /\ dirty' = TRUE
  /\ tempLayer' = RenderConnections
  /\ lastOp' = [call |-> "deleteNode", args |-> <<nodeId>>]

\* deleteNode(nodeId)
DeleteNode(nodeId) ==
  /\ nodes' = NodesAfterDelete(nodes, nodeId)
  /\ connections' = ConnectionsAfterDelete(connections, nodeId)
  /\ IF selectedNodeId = nodeId
       THEN SelectNode(Null, nodes')
       ELSE UNCHANGED << selectedNodeId, panel >>
  /\ dirty' = TRUE
  /\ tempLayer' = RenderConnections
  /\ lastOp' = [call |-> "deleteNode", args |-> <<nodeId>>]

\* addConnection(fromId, fromPort, toId, toPort); the layer it leaves is
\* LayerAfterAdd
AddConnection(fromId, fromPort, toId, toPort) ==
  /\ connections' = ConnectionsAfterAdd(connections, fromId, fromPort, toId, toPort)
  /\ dirty' = (dirty \/ ConnAccepted(connections, fromId, fromPort, toId, toPort))
  /\ lastOp' = [call |-> "addConnection", args |-> <<fromId, fromPort, toId, toPort>>]
  /\ UNCHANGED << nodes, selectedNodeId, panel >>

\* removeConnection(fromId, fromPort, toId, toPort)
RemoveConnection(fromId, fromPort, toId, toPort) ==
  /\ connections' = ConnectionsAfterRemove(connections, fromId, fromPort, toId, toPort)
  /\ dirty' = TRUE
  /\ tempLayer' = RenderConnections
  /\ lastOp' = [call |-> "removeConnection", args |-> <<fromId, fromPort, toId, toPort>>]
  /\ UNCHANGED << nodes, selectedNodeId, panel >>

\* a handler that calls no graph operation
NoCall ==
  /\ lastOp' = NoOp
  /\ UNCHANGED << nodes, connections, dirty >>

(***************************************************************************)
(* editor.js: the event handlers.                                          *)
(***************************************************************************)
\* the elements a pointer event can hit: the canvas, a node's body, a port
BodyTargets == { <<"body", i>> : i \in DOMAIN nodes }
PortTargets ==
  UNION { { <<"port", i, "input", NODE_TYPES[nodes[i].type].inputs[k]>> :
              k \in DOMAIN NODE_TYPES[nodes[i].type].inputs }
          \cup
          { <<"port", i, "output", NODE_TYPES[nodes[i].type].outputs[k]>> :
              k \in DOMAIN NODE_TYPES[nodes[i].type].outputs } : i \in DOMAIN nodes }
Targets == { <<"canvas">> } \cup BodyTargets \cup PortTargets

\* drop of a palette item on the canvas
OnCanvasDrop(type, pt, t, r) ==
  /\ Len(nodes) < MaxNodes
  /\ AddNode(type, pt[1] - NODE_W \div 2, pt[2] - NODE_H \div 2, t, r)
  /\ UNCHANGED << modeVars, zoom, validatorVars, playerVars, trackerVars, storeVars, callVars >>

\* mousedown on a node group: on one of its ports or on its body
OnNodeMouseDown(target, pt) ==
  LET nodeId == nodes[target[2]].id
  IN  /\ IF target[1] = "port"
           THEN /\ IF target[3] = "output"
                     THEN /\ Cardinality(tempLayer) < MaxTempLines
                          /\ tempLayer' = tempLayer \cup {NewTempLine(tempLayer)}
                          /\ connectState' = [fromNodeId |-> nodeId, fromPort |-> target[4],
                                              tempLine |-> NewTempLine(tempLayer)]
                     ELSE UNCHANGED << connectState, tempLayer >>
                /\ UNCHANGED << selectedNodeId, panel, dragState >>
           ELSE /\ SelectNode(nodeId, nodes)
                /\ dragState' = [ nodeId |-> nodeId,
                                  offsetX |-> pt[1] - nodes[FindNode(nodes, nodeId)].x,
                                  offsetY |-> pt[2] - nodes[FindNode(nodes, nodeId)].y ]
                /\ UNCHANGED << connectState, tempLayer >>
      /\ NoCall
      /\ UNCHANGED << panState, zoom, validatorVars, playerVars, trackerVars, storeVars, callVars >>

\* mousedown on the empty canvas (a node group stops the event's propagation)
OnSvgMouseDown(pt) ==
  /\ panState' = [startX |-> pt[1], startY |-> pt[2]]
  /\ NoCall
  /\ UNCHANGED << selectedNodeId, panel, dragState, connectState, canvasVars,
                  validatorVars, playerVars, trackerVars, storeVars, callVars >>

\* mousemove over the canvas
OnSvgMouseMove(pt) ==
  /\ IF dragState # Null /\ FindNode(nodes, dragState.nodeId) # 0
       THEN LET i == FindNode(nodes, dragState.nodeId)
                x == Round10(pt[1] - dragState.offsetX)
                y == Round10(pt[2] - dragState.offsetY)
            IN  /\ x \in 0..GridLimit /\ y \in 0..GridLimit
                /\ nodes' = NodesAfterMove(nodes, i, x, y)
                /\ dirty' = TRUE
                /\ tempLayer' = RenderConnections
                /\ lastOp' = [call |-> "moveNode", args |-> <<dragState.nodeId>>]
                /\ UNCHANGED connections
       ELSE \* the temporary curve or the camera moves: no graph state changes
            NoCall /\ UNCHANGED tempLayer
  /\ UNCHANGED << selectedNodeId, panel, modeVars, zoom, validatorVars, playerVars, trackerVars, storeVars, callVars >>

\* (variant of the pointer-up handler without the test toNodeId !== fromNodeId)
OnSvgMouseUpAnyNode(target) ==
  /\ IF dragState # Null
       THEN /\ dragState' = Null
            /\ NoCall
            /\ UNCHANGED << selectedNodeId, panel, connectState, panState, tempLayer >>
       ELSE IF connectState # Null
         THEN /\ IF /\ target[1] = "port" /\ target[3] = "input"
                   THEN /\ AddConnection(connectState.fromNodeId, connectState.fromPort,
                                         nodes[target[2]].id, target[4])
                        \* the curve is removed if it still has a parent
                        /\ tempLayer' = LayerAfterAdd(tempLayer, connections,
                                           connectState.fromNodeId, connectState.fromPort,
                                           nodes[target[2]].id, target[4])
                                         \ {connectState.tempLine}
                   ELSE /\ NoCall /\ UNCHANGED << selectedNodeId, panel >>
                        /\ tempLayer' = tempLayer \ {connectState.tempLine}
              /\ connectState' = Null
              /\ UNCHANGED << dragState, panState >>
         ELSE /\ panState' = Null
              /\ NoCall
              /\ UNCHANGED << selectedNodeId, panel, dragState, connectState, tempLayer >>
  /\ UNCHANGED << zoom, validatorVars, playerVars, trackerVars, storeVars, callVars >>

\* mouseup over the canvas, on target
OnSvgMouseUp(target) ==
  /\ IF dragState # Null
       THEN /\ dragState' = Null
            /\ NoCall
            /\ UNCHANGED << selectedNodeId, panel, connectState, panState, tempLayer >>
       ELSE IF connectState # Null
         THEN /\ IF /\ target[1] = "port" /\ target[3] = "input"
                    /\ nodes[target[2]].id # connectState.fromNodeId
                   THEN /\ AddConnection(connectState.fromNodeId, connectState.fromPort,
                                         nodes[target[2]].id, target[4])
                        \* the curve is removed if it still has a parent
                        /\ tempLayer' = LayerAfterAdd(tempLayer, connections,
                                           connectState.fromNodeId, connectState.fromPort,
                                           nodes[target[2]].id, target[4])
                                         \ {connectState.tempLine}
                   ELSE /\ NoCall /\ UNCHANGED << selectedNodeId, panel >>
                        /\ tempLayer' = tempLayer \ {connectState.tempLine}
              /\ connectState' = Null
              /\ UNCHANGED << dragState, panState >>
         ELSE /\ panState' = Null
              /\ NoCall
              /\ UNCHANGED << selectedNodeId, panel, dragState, connectState, tempLayer >>
  /\ UNCHANGED << zoom, validatorVars, playerVars, trackerVars, storeVars, callVars >>

\* click on the canvas, on target
OnSvgClick(target) ==
  /\ IF target[1] = "canvas"
       THEN SelectNode(Null, nodes)
       ELSE UNCHANGED << selectedNodeId, panel >>
  /\ NoCall
  /\ UNCHANGED << modeVars, canvasVars, validatorVars, playerVars, trackerVars, storeVars, callVars >>

\* double click on the rendered connection k
OnConnectionDblClick(k) ==
  /\ FindNode(nodes, connections[k].from) # 0
  /\ FindNode(nodes, connections[k].to) # 0
  /\ RemoveConnection(connections[k].from, connections[k].fromPort,
                      connections[k].to, connections[k].toPort)
  /\ UNCHANGED << modeVars, zoom, validatorVars, playerVars, trackerVars, storeVars, callVars >>

\* keydown Delete / Backspace outside an input
OnKeyDelete ==
  /\ selectedNodeId # Null
  /\ DeleteNode(selectedNodeId)
  /\ UNCHANGED << modeVars, zoom, validatorVars, playerVars, trackerVars, storeVars, callVars >>

\* the panel's Delete Node button
OnPanelDelete ==
  /\ panel # Null
  /\ panel.deleteBtn
  /\ DeleteNode(panel.nodeId)
  /\ UNCHANGED << modeVars, zoom, validatorVars, playerVars, trackerVars, storeVars, callVars >>

\* the panel's close button: LPEditor.selectNode(null)
OnPanelClose ==
  /\ panel # Null
  /\ SelectNode(Null, nodes)
  /\ NoCall
  /\ UNCHANGED << modeVars, canvasVars, validatorVars, playerVars, trackerVars, storeVars, callVars >>

\* updateField(fieldName, value) from an input of the open panel
UpdateField(fieldName, value) ==
  /\ panel # Null
  /\ \E k \in DOMAIN NODE_TYPES[panel.type].fields :
       NODE_TYPES[panel.type].fields[k].name = fieldName
  /\ LET i == FindNode(nodes, selectedNodeId)
     IN  IF i = 0
           THEN NoCall /\ UNCHANGED tempLayer
           ELSE /\ nodes' = [nodes EXCEPT ![i].data = DataWith(@, fieldName, value)]
                /\ dirty' = TRUE
                /\ tempLayer' = RenderConnections
                /\ lastOp' = [call |-> "updateField", args |-> <<selectedNodeId, fieldName>>]
                /\ UNCHANGED connections
  /\ UNCHANGED << selectedNodeId, panel, modeVars, zoom, validatorVars, playerVars, trackerVars, storeVars, callVars >>

InitEditor ==
  /\ nodes = <<>>
  /\ connections = <<>>
  /\ selectedNodeId = Null
  /\ panel = Null
  /\ dragState = Null
  /\ connectState = Null
  /\ panState = Null
  /\ dirty = FALSE
  /\ lastOp = NoOp
  /\ tempLayer = {}
  /\ zoom = ZoomScale

InitValidator ==
  /\ doc = [nodes |-> <<>>, connections |-> <<>>]
  /\ result = Null

InitPlayer ==
  /\ pathData = [nodes |-> <<>>, connections |-> <<>>]
  /\ playerLoaded = FALSE
  /\ orderedNodesA = <<>>
  /\ orderedNodesB = <<>>
  /\ followedA = <<>>
  /\ followedB = <<>>

\* the session state of a page no player script has run on
InitSession ==
  /\ script = "A"
  /\ currentIndex = 0
  /\ nodeStates = <<>>
  /\ nodeStatus = <<>>
  /\ emitted = <<>>
  /\ launched = {}
  /\ posted = <<>>
  /\ inFlight = {}
  /\ progressBar = Null
  /\ lastAction = NoOp

\* the tracker before any sendStatement call
InitTracker ==
  /\ lrsConfig = Null
  /\ outcome = Null
  /\ promise = [state |-> "none"]
  /\ requests = <<>>

\* an empty paths directory and no request answered
InitStore ==
  /\ store = <<>>
  /\ response = Null
  /\ uuids = {}
  /\ updates = <<>>
  /\ pathId = Null
  /\ saves = <<>>
  /\ acked = [nodes |-> <<>>, connections |-> <<>>]

Init == InitEditor /\ InitValidator /\ InitPlayer /\ InitSession /\ InitTracker /\ InitStore

Next ==
  \/ \E type \in PaletteTypes, pt \in PointerPts, t \in 0..MaxTime, r \in 1..NumRand :
       OnCanvasDrop(type, pt, t, r)
  \/ \E target \in BodyTargets \cup PortTargets, pt \in PointerPts :
       OnNodeMouseDown(target, pt)
  \/ \E pt \in PointerPts : OnSvgMouseDown(pt)
  \/ \E pt \in PointerPts : OnSvgMouseMove(pt)
  \/ \E target \in Targets : OnSvgMouseUp(target)
  \/ \E target \in Targets : OnSvgClick(target)
  \/ \E k \in DOMAIN connections : OnConnectionDblClick(k)
  \/ OnKeyDelete
  \/ OnPanelDelete
  \/ OnPanelClose
  \/ \E f \in EditedFields, v \in FieldValues : UpdateField(f, v)

Spec == Init /\ [][Next]_vars


(***************************************************************************)
(* Claims about the editor's graph model (specification Spec).             *)
(***************************************************************************)
\* the ids of the nodes ns
NodeIds(ns) == { ns[i].id : i \in DOMAIN ns }

\* C1: an addConnection call whose destination (toId, toPort) already has an
\* incoming connection, identical or from another source, is rejected: the
\* connection list after the call is exactly the list before it.
C1_OccupiedInputRejected ==
  [][ ( /\ lastOp'.call = "addConnection"
        /\ \E c \in Range(connections) :
             c.to = lastOp'.args[3] /\ c.toPort = lastOp'.args[4] )
      => connections' = connections ]_vars

\* C1 witness: addConnection was called for an input port that another
\* connection (a different source port) occupies, and that connection remains.
C1_Witness ==
  /\ lastOp.call = "addConnection"
  /\ \E c \in Range(connections) :
       /\ c.to = lastOp.args[3] /\ c.toPort = lastOp.args[4]
       /\ <<c.from, c.fromPort>> # <<lastOp.args[1], lastOp.args[2]>>

\* C2: from the empty path, no two connections of a reachable path share the
\* same (to, toPort).
C2_SinglePredecessor ==
  \A i, j \in DOMAIN connections :
    (connections[i].to = connections[j].to /\ connections[i].toPort = connections[j].toPort)
      => i = j

\* C2 witness: two connections exist, and an addConnection call has just been
\* made for an input port that is occupied.
C2_Witness ==
  /\ Len(connections) = 2
  /\ lastOp.call = "addConnection"
  /\ \E c \in Range(connections) :
       /\ c.to = lastOp.args[3] /\ c.toPort = lastOp.args[4]
       /\ c.fromPort # lastOp.args[2]

\* C3: deleteNode(nodeId) removes the nodes with that id and the connections
\* whose from or to is nodeId, and keeps everything else in order.
C3_DeleteCascades ==
  [][ lastOp'.call = "deleteNode" =>
        LET nodeId == lastOp'.args[1]
        IN  /\ nodes' = SelectSeq(nodes, LAMBDA n : n.id # nodeId)
            /\ connections' = SelectSeq(connections,
                                        LAMBDA c : c.from # nodeId /\ c.to # nodeId)
            /\ \A c \in Range(connections') : c.from # nodeId /\ c.to # nodeId
            /\ nodeId \notin NodeIds(nodes') ]_vars

\* C3 witness: deleteNode has removed a node while another node is kept.
C3_Witness ==
  /\ lastOp.call = "deleteNode"
  /\ Len(nodes) = 1
  /\ lastOp.args[1] \notin NodeIds(nodes)

\* C4 (as claimed): in every reachable state every connection's from and to
\* are ids of nodes in the path, its fromPort is an output port of the source
\* node's type and its toPort an input port of the destination node's type.
C4_ConnectionsWellFormed ==
  \A c \in Range(connections) :
    /\ FindNode(nodes, c.from) # 0
    /\ FindNode(nodes, c.to) # 0
    /\ c.fromPort \in Range(NODE_TYPES[nodes[FindNode(nodes, c.from)].type].outputs)
    /\ c.toPort \in Range(NODE_TYPES[nodes[FindNode(nodes, c.to)].type].inputs)

\* the types with a cap, and the cap
CappedTypes == { type \in DOMAIN NODE_TYPES : "maxInstances" \in DOMAIN NODE_TYPES[type] }

\* C5: addNode for a capped type fails when the path already holds
\* maxInstances nodes of the type, leaving nodes, connections and selection
\* unchanged; no addNode call leaves more nodes of a capped type than its cap.
C5_CapacityExceeded ==
  [][ lastOp'.call = "addNode" =>
        \A type \in CappedTypes :
          /\ ( /\ lastOp'.args[1] = type
               /\ Cardinality({ i \in DOMAIN nodes : nodes[i].type = type })
                    >= NODE_TYPES[type].maxInstances )
             => ( /\ nodes' = nodes /\ connections' = connections
                  /\ selectedNodeId' = selectedNodeId )
          /\ Cardinality({ i \in DOMAIN nodes' : nodes'[i].type = type })
               <= NODE_TYPES[type].maxInstances ]_vars

\* C5 witness: an addNode("start") call was refused with one Start in the path.
C5_Witness ==
  /\ lastOp = [call |-> "addNode", args |-> <<"start", Null>>]
  /\ Cardinality({ i \in DOMAIN nodes : nodes[i].type = "start" }) = 1

\* C6 (as claimed): a successful addNode appends exactly one node whose id
\* differs from every id already in the path, whose type is the requested
\* one and whose data holds exactly the declared defaults; the existing nodes
\* and the connections are unchanged.
C6_AddNodeFresh ==
  [][ (lastOp'.call = "addNode" /\ lastOp'.args[2] # Null) =>
        LET new == nodes'[Len(nodes')]
            fs == NODE_TYPES[lastOp'.args[1]].fields
        IN  /\ Len(nodes') = Len(nodes) + 1
            /\ SubSeq(nodes', 1, Len(nodes)) = nodes
            /\ connections' = connections
            /\ new.type = lastOp'.args[1]
            /\ DOMAIN new.data = { fs[k].name : k \in { k \in DOMAIN fs : "default" \in DOMAIN fs[k] } }
            /\ \A k \in DOMAIN fs :
                 "default" \in DOMAIN fs[k] => new.data[fs[k].name] = fs[k].default
            /\ new.id \notin NodeIds(nodes) ]_vars


(***************************************************************************)
(* nodeTypes.js: validateNode and validatePath.  A message is the sequence *)
(* of the fragments its template literal joins.                            *)
(***************************************************************************)
\* most nodes and connections of a validated path
MaxDocNodes == 3
MaxDocConns == 1

\* truthiness of a field value (the validated paths hold string values)
Truthy(v) == v # ""

\* node.data && node.data[name] is truthy (undefined data is the empty map)
HasValue(data, name) == name \in DOMAIN data /\ Truthy(data[name])

\* (variant of the field test that ignores the required flag)
MissingRequiredAnyField(field, data) == ~HasValue(data, field.name)

\* field.required && (!node.data || !node.data[field.name])
MissingRequired(field, data) ==
  /\ "required" \in DOMAIN field
  /\ field.required
  /\ ~HasValue(data, field.name)

validateNode(node) ==
  IF ~HasType(node.type)
    THEN [valid |-> FALSE, errors |-> << <<"Unknown node type: ", node.type>> >>]
    ELSE LET fs == NODE_TYPES[node.type].fields
             errs[k \in 0..Len(fs)] ==
               IF k = 0 THEN <<>>
               ELSE IF MissingRequired(fs[k], node.data)
                      THEN Append(errs[k-1], <<fs[k].label, " is required">>)
                      ELSE errs[k-1]
         IN  [valid |-> Len(errs[Len(fs)]) = 0, errors |-> errs[Len(fs)]]

\* (variant of the count checks without the End check)
CountErrorsNoEndCheck(ns) ==
  LET startNodes == SelectSeq(ns, LAMBDA n : n.type = "start")
  IN  (IF Len(startNodes) = 0 THEN << <<"Learning path must have a Start node">> >> ELSE <<>>)
      \o (IF Len(startNodes) > 1
            THEN << <<"Learning path can only have one Start node">> >> ELSE <<>>)

\* (variant of the count checks without the check for more than one Start)
CountErrorsManyStarts(ns) ==
  LET startNodes == SelectSeq(ns, LAMBDA n : n.type = "start")
      endNodes == SelectSeq(ns, LAMBDA n : n.type = "end")
  IN  (IF Len(startNodes) = 0 THEN << <<"Learning path must have a Start node">> >> ELSE <<>>)
      \o (IF Len(endNodes) = 0 THEN << <<"Learning path must have an End node">> >> ELSE <<>>)

\* validatePath, lines 210-221: the Start and End counts
CountErrors(ns) ==
  LET startNodes == SelectSeq(ns, LAMBDA n : n.type = "start")
      endNodes == SelectSeq(ns, LAMBDA n : n.type = "end")
  IN  (IF Len(startNodes) = 0 THEN << <<"Learning path must have a Start node">> >> ELSE <<>>)
      \o (IF Len(startNodes) > 1
            THEN << <<"Learning path can only have one Start node">> >> ELSE <<>>)
      \o (IF Len(endNodes) = 0 THEN << <<"Learning path must have an End node">> >> ELSE <<>>)

\* node.data?.title || NODE_TYPES[node.type]?.label || node.id
NodeLabel(node) ==
  IF HasValue(node.data, "title") THEN node.data.title
  ELSE IF HasType(node.type) /\ Truthy(NODE_TYPES[node.type].label)
         THEN NODE_TYPES[node.type].label
         ELSE node.id

\* validatePath, lines 224-232: every node's errors, prefixed with its label
NodeErrors(ns) ==
  LET prefixed(node) ==
        [ k \in DOMAIN validateNode(node).errors |->
            <<"[", NodeLabel(node), "] ">> \o validateNode(node).errors[k] ]
      errs[i \in 0..Len(ns)] ==
        IF i = 0 THEN <<>>
        ELSE IF ~validateNode(ns[i]).valid THEN errs[i-1] \o prefixed(ns[i]) ELSE errs[i-1]
  IN  errs[Len(ns)]

\* validatePath, lines 235-245: connections whose endpoints are no node ids
ConnectionErrors(ns, cs) ==
  LET nodeIds == { ns[i].id : i \in DOMAIN ns }
      errs[k \in 0..Len(cs)] ==
        IF k = 0 THEN <<>>
        ELSE errs[k-1]
             \o (IF cs[k].from \notin nodeIds
                   THEN << <<"Connection references non-existent source node: ", cs[k].from>> >>
                   ELSE <<>>)
             \o (IF cs[k].to \notin nodeIds
                   THEN << <<"Connection references non-existent target node: ", cs[k].to>> >>
                   ELSE <<>>)
  IN  errs[Len(cs)]

validatePath(pd) ==
  IF Len(pd.nodes) = 0
    THEN [valid |-> FALSE, errors |-> << <<"Learning path must have at least one node">> >>]
    ELSE LET errors == CountErrors(pd.nodes) \o NodeErrors(pd.nodes)
                       \o ConnectionErrors(pd.nodes, pd.connections)
         IN  [valid |-> Len(errors) = 0, errors |-> errors]

(***************************************************************************)
(* The validator's specification: a path is built node by node and         *)
(* connection by connection and validated at any point.                    *)
(***************************************************************************)
\* the id of the i-th node of a validated path
DocIds == <<"n1", "n2", "n3", "n4", "n5", "n6">>
\* the node ids a connection of a validated path can name
DocEndpoints == {"n1", "n2", "ghost"}
\* the type and data of the nodes a validated path is built from: registered
\* types and an unregistered one
DocNodeKinds ==
  { [type |-> "start", data |-> <<>>],
    [type |-> "end", data |-> <<>>],
    [type |-> "quiz", data |-> <<>>],
    [type |-> "theory", data |-> <<>>],
    [type |-> "theory", data |-> [title |-> ""]],
    [type |-> "theory", data |-> [title |-> "Intro"]] }

PushDocNode(kind) ==
  /\ Len(doc.nodes) < MaxDocNodes
  /\ doc' = [doc EXCEPT !.nodes =
               Append(@, [id |-> DocIds[Len(doc.nodes) + 1],
                          type |-> kind.type, data |-> kind.data])]
  /\ result' = Null
  /\ UNCHANGED << editorVars, playerVars, trackerVars, storeVars, callVars >>

PushDocConnection(from, to) ==
  /\ Len(doc.connections) < MaxDocConns
  /\ doc' = [doc EXCEPT !.connections =
               Append(@, [from |-> from, fromPort |-> "next", to |-> to, toPort |-> "prev"])]
  /\ result' = Null
  /\ UNCHANGED << editorVars, playerVars, trackerVars, storeVars, callVars >>

Validate ==
  /\ result' = validatePath(doc)
  /\ UNCHANGED << doc, editorVars, playerVars, trackerVars, storeVars, callVars >>

NextValidate ==
  \/ \E kind \in DocNodeKinds : PushDocNode(kind)
  \/ \E from \in DocEndpoints, to \in DocEndpoints : PushDocConnection(from, to)
  \/ Validate

SpecValidate == Init /\ [][NextValidate]_vars

(***************************************************************************)
(* Claims about the validator (specification SpecValidate).                *)
(***************************************************************************)
StartCount(ns) == Cardinality({ i \in DOMAIN ns : ns[i].type = "start" })
EndCount(ns) == Cardinality({ i \in DOMAIN ns : ns[i].type = "end" })
MustHaveStart == <<"Learning path must have a Start node">>
MustHaveEnd == <<"Learning path must have an End node">>

\* C7 (as claimed): for every path with zero Start nodes validate returns
\* valid:false with the "must have a Start node" message, and for every path
\* with zero End nodes valid:false with the "must have an End node" message.
C7_ZeroStartOrEndReported ==
  result # Null =>
    /\ StartCount(doc.nodes) = 0 =>
         (~result.valid /\ MustHaveStart \in Range(result.errors))
    /\ EndCount(doc.nodes) = 0 =>
         (~result.valid /\ MustHaveEnd \in Range(result.errors))

\* C7 (amended): the same for every path with at least one node; a path with
\* no node is answered valid:false with the single "must have at least one
\* node" message.
C7_NonEmptyZeroStartOrEndReported ==
  result # Null =>
    /\ (Len(doc.nodes) > 0 /\ StartCount(doc.nodes) = 0) =>
         (~result.valid /\ MustHaveStart \in Range(result.errors))
    /\ (Len(doc.nodes) > 0 /\ EndCount(doc.nodes) = 0) =>
         (~result.valid /\ MustHaveEnd \in Range(result.errors))
    /\ Len(doc.nodes) = 0 =>
         (~result.valid
          /\ result.errors = << <<"Learning path must have at least one node">> >>)

\* C7 witness: a validated path with nodes, a Start and no End.
C7_Witness ==
  /\ result # Null
  /\ Len(doc.nodes) > 0
  /\ StartCount(doc.nodes) = 1
  /\ EndCount(doc.nodes) = 0
  /\ MustHaveEnd \in Range(result.errors)

\* every required field of every node of ns holds a non-empty string
RequiredFilled(ns) ==
  \A i \in DOMAIN ns :
    ns[i].type \in DOMAIN NODE_TYPES =>
      \A k \in DOMAIN NODE_TYPES[ns[i].type].fields :
        LET f == NODE_TYPES[ns[i].type].fields[k]
        IN  ("required" \in DOMAIN f /\ f.required) =>
              (f.name \in DOMAIN ns[i].data /\ ns[i].data[f.name] # "")

\* C8 (as claimed): every path with exactly one Start, exactly one End and
\* every required field filled is answered valid:true with no errors.
C8_OneStartOneEndValid ==
  ( /\ result # Null
    /\ StartCount(doc.nodes) = 1 /\ EndCount(doc.nodes) = 1
    /\ RequiredFilled(doc.nodes) )
  => (result.valid /\ result.errors = <<>>)

\* C8 (amended): ... provided also that every node's type is registered and
\* every connection's from and to are ids of nodes of the path.
C8_WellFormedOneStartOneEndValid ==
  ( /\ result # Null
    /\ StartCount(doc.nodes) = 1 /\ EndCount(doc.nodes) = 1
    /\ RequiredFilled(doc.nodes)
    /\ \A i \in DOMAIN doc.nodes : doc.nodes[i].type \in DOMAIN NODE_TYPES
    /\ \A c \in Range(doc.connections) :
         c.from \in NodeIds(doc.nodes) /\ c.to \in NodeIds(doc.nodes) )
  => (result.valid /\ result.errors = <<>>)

\* C8 witness: a validated Start, filled Theory Unit and End with a connection.
C8_Witness ==
  /\ result # Null /\ result.valid
  /\ StartCount(doc.nodes) = 1 /\ EndCount(doc.nodes) = 1
  /\ \E i \in DOMAIN doc.nodes : doc.nodes[i].type = "theory"
  /\ Len(doc.connections) = 1


\* C32: every path validate answers valid:true has exactly one Start node and
\* at least one End node, and valid is true exactly when the error list is
\* empty.
C32_ValidHasOneStartAndAnEnd ==
  result # Null =>
    /\ result.valid => (StartCount(doc.nodes) = 1 /\ EndCount(doc.nodes) >= 1)
    /\ result.valid <=> (result.errors = <<>>)

\* C32 witness: a validated path with one Start and two Ends is valid.
C32_Witness ==
  /\ result # Null /\ result.valid
  /\ StartCount(doc.nodes) = 1 /\ EndCount(doc.nodes) = 2


(***************************************************************************)
(* player.js: the two players' linearization of the path.  orderedNodesA   *)
(* and followedA belong to the first player (buildNodeOrder), orderedNodesB*)
(* and followedB to the second (buildTraversalOrder); followed* record the *)
(* connection each iteration of the walk follows.                          *)
(***************************************************************************)
\* most nodes and connections of a played path
MaxPathNodes == 3
MaxPathConns == 2

\* nodes.find((n) => n.id === id): the first node with the id, or null
FindById(ns, id) == IF FindNode(ns, id) = 0 THEN Null ELSE ns[FindNode(ns, id)]

\* nodes.find((n) => n.type === 'start'): the first Start node, or null
FindStart(ns) ==
  IF \E i \in DOMAIN ns : ns[i].type = "start"
    THEN ns[CHOOSE i \in DOMAIN ns :
              ns[i].type = "start" /\ \A j \in 1..(i-1) : ns[j].type # "start"]
    ELSE Null

\* the while loop of buildNodeOrder: current is a node or null
RECURSIVE WalkNodeOrder(_, _, _, _, _)
WalkNodeOrder(ns, cs, current, visited, acc) ==
  IF current = Null THEN acc
  ELSE IF current.id \in visited THEN acc
  ELSE LET pushed == IF current.type # "start"
                       THEN [acc EXCEPT !.ordered = Append(@, current)]
                       ELSE acc
           outConns == SelectSeq(cs, LAMBDA c : c.from = current.id)
       IN  IF Len(outConns) = 0 THEN pushed
           ELSE WalkNodeOrder(ns, cs, FindById(ns, outConns[1].to),
                              visited \cup {current.id},
                              [pushed EXCEPT !.followed = Append(@, outConns[1])])

\* the ordered list and the followed connections of the first player's walk
NodeOrderWalk(data) ==
  WalkNodeOrder(data.nodes, data.connections, FindStart(data.nodes), {},
                [ordered |-> <<>>, followed |-> <<>>])

\* (variant that never walks the connections: the nodes in document order)
buildNodeOrderDocumentOrder(data) == SelectSeq(data.nodes, LAMBDA n : n.type # "start")

buildNodeOrder(data) ==
  IF FindStart(data.nodes) = Null
    THEN SelectSeq(data.nodes, LAMBDA n : n.type # "start" /\ n.type # "end")
    ELSE IF Len(NodeOrderWalk(data).ordered) = 0
           THEN SelectSeq(data.nodes, LAMBDA n : n.type # "start")
           ELSE NodeOrderWalk(data).ordered

\* nodeMap[id]: the last node with the id, or undefined
NodeMapGet(ns, id) ==
  IF \E i \in DOMAIN ns : ns[i].id = id
    THEN ns[CHOOSE i \in DOMAIN ns :
              ns[i].id = id /\ \A j \in (i+1)..Len(ns) : ns[j].id # id]
    ELSE Null

\* nextMap[from]: its ports in the order they were first set, each with the
\* destination set last; the empty sequence where nextMap[from] is undefined
NextMapGet(cs, from) ==
  LET outs[k \in 0..Len(cs)] ==
        IF k = 0 THEN <<>>
        ELSE IF cs[k].from # from THEN outs[k-1]
        ELSE IF \E i \in DOMAIN outs[k-1] : outs[k-1][i].port = cs[k].fromPort
               THEN [ i \in DOMAIN outs[k-1] |->
                        IF outs[k-1][i].port = cs[k].fromPort
                          THEN [port |-> cs[k].fromPort, to |-> cs[k].to]
                          ELSE outs[k-1][i] ]
               ELSE Append(outs[k-1], [port |-> cs[k].fromPort, to |-> cs[k].to])
  IN  outs[Len(cs)]

\* outs[port] is set and truthy
OutTruthy(outs, port) == \E i \in DOMAIN outs : outs[i].port = port /\ Truthy(outs[i].to)

OutEntry(outs, port) == outs[CHOOSE i \in DOMAIN outs : outs[i].port = port]

\* outs.next || outs.pass || outs.pathA || Object.values(outs)[0] || null:
\* the entry taken, or null
PickOut(outs) ==
  IF OutTruthy(outs, "next") THEN OutEntry(outs, "next")
  ELSE IF OutTruthy(outs, "pass") THEN OutEntry(outs, "pass")
  ELSE IF OutTruthy(outs, "pathA") THEN OutEntry(outs, "pathA")
  ELSE IF Truthy(outs[1].to) THEN outs[1]
  ELSE Null

\* the while loop of buildTraversalOrder: current is a node id, "" for null
RECURSIVE WalkTraversal(_, _, _, _, _)
WalkTraversal(ns, cs, current, visited, acc) ==
  IF ~Truthy(current) \/ current \in visited THEN acc
  ELSE LET pushed == IF NodeMapGet(ns, current) # Null
                       THEN [acc EXCEPT !.ordered = Append(@, NodeMapGet(ns, current))]
                       ELSE acc
           outs == NextMapGet(cs, current)
       IN  IF Len(outs) = 0 THEN pushed
           ELSE IF PickOut(outs) = Null THEN pushed
           ELSE WalkTraversal(ns, cs, PickOut(outs).to, visited \cup {current},
                              [pushed EXCEPT !.followed =
                                 Append(@, [from |-> current,
                                            fromPort |-> PickOut(outs).port,
                                            to |-> PickOut(outs).to])])

\* the ordered list and the followed connections of the second player's walk
TraversalWalk(data) ==
  WalkTraversal(data.nodes, data.connections, FindStart(data.nodes).id, {},
                [ordered |-> <<>>, followed |-> <<>>])

\* (variant without the cycle guard's effect on the order: the node the walk
\* stops at for being visited already is pushed once more)
buildTraversalOrderWithRevisit(data) ==
  IF FindStart(data.nodes) = Null
    THEN SelectSeq(data.nodes, LAMBDA n : n.type # "start" /\ n.type # "end")
    ELSE LET w == TraversalWalk(data)
         IN  IF /\ Len(w.followed) > 0
                /\ \E k \in DOMAIN w.ordered : w.ordered[k].id = w.followed[Len(w.followed)].to
               THEN Append(w.ordered, NodeMapGet(data.nodes, w.followed[Len(w.followed)].to))
               ELSE w.ordered

buildTraversalOrder(data) ==
  IF FindStart(data.nodes) = Null
    THEN SelectSeq(data.nodes, LAMBDA n : n.type # "start" /\ n.type # "end")
    ELSE TraversalWalk(data).ordered

(***************************************************************************)
(* The players' specification: the path of the page is built node by node  *)
(* and connection by connection, and the page loads at any point.          *)
(***************************************************************************)
\* the id of the i-th node of a played path
PathIds == <<"p1", "p2", "p3", "p4", "p5", "p6">>
\* the types of the nodes of a played path
PathTypes == {"start", "theory", "gate", "end"}

PushPathNode(type) ==
  /\ Len(pathData.nodes) < MaxPathNodes
  /\ pathData' = [pathData EXCEPT !.nodes =
                    Append(@, [id |-> PathIds[Len(pathData.nodes) + 1], type |-> type])]
  /\ playerLoaded' = FALSE
  /\ orderedNodesA' = <<>> /\ orderedNodesB' = <<>>
  /\ followedA' = <<>> /\ followedB' = <<>>
  /\ UNCHANGED << editorVars, validatorVars, sessionVars, trackerVars, storeVars, callVars >>

PushPathConnection(i, fromPort, j) ==
  /\ Len(pathData.connections) < MaxPathConns
  /\ i \in DOMAIN pathData.nodes /\ j \in DOMAIN pathData.nodes
  /\ fromPort \in Range(NODE_TYPES[pathData.nodes[i].type].outputs)
  /\ pathData' = [pathData EXCEPT !.connections =
                    Append(@, [from |-> pathData.nodes[i].id, fromPort |-> fromPort,
                               to |-> pathData.nodes[j].id, toPort |-> "prev"])]
  /\ playerLoaded' = FALSE
  /\ orderedNodesA' = <<>> /\ orderedNodesB' = <<>>
  /\ followedA' = <<>> /\ followedB' = <<>>
  /\ UNCHANGED << editorVars, validatorVars, sessionVars, trackerVars, storeVars, callVars >>

\* the DOMContentLoaded handlers of the two players, up to the order they build
OnDOMContentLoaded ==
  /\ ~playerLoaded
  /\ playerLoaded' = TRUE
  /\ orderedNodesA' = buildNodeOrder(pathData)
  /\ followedA' = IF FindStart(pathData.nodes) = Null THEN <<>>
                  ELSE NodeOrderWalk(pathData).followed
  /\ orderedNodesB' = buildTraversalOrder(pathData)
  /\ followedB' = IF FindStart(pathData.nodes) = Null THEN <<>>
                  ELSE TraversalWalk(pathData).followed
  /\ UNCHANGED << pathData, editorVars, validatorVars, sessionVars, trackerVars, storeVars, callVars >>

NextLinear ==
  \/ \E type \in PathTypes : PushPathNode(type)
  \/ \E i \in 1..MaxPathNodes, fromPort \in {"next", "pass", "fail"}, j \in 1..MaxPathNodes :
       PushPathConnection(i, fromPort, j)
  \/ OnDOMContentLoaded

SpecLinear == Init /\ [][NextLinear]_vars

(***************************************************************************)
(* Claims about linearization (specification SpecLinear).                  *)
(***************************************************************************)
\* the path is Start -> n1 -> ... -> nk by next connections, k >= 1: one
\* Start, every connection leaves a next port and joins two nodes, no node has
\* two outgoing or two incoming connections, and none enters Start
IsStartChain(pd) ==
  /\ Cardinality({ i \in DOMAIN pd.nodes : pd.nodes[i].type = "start" }) = 1
  /\ \A k \in DOMAIN pd.connections :
       /\ pd.connections[k].fromPort = "next"
       /\ pd.connections[k].from \in NodeIds(pd.nodes)
       /\ pd.connections[k].to \in NodeIds(pd.nodes)
       /\ \A i \in DOMAIN pd.nodes :
            pd.nodes[i].type = "start" => pd.connections[k].to # pd.nodes[i].id
       /\ \A l \in DOMAIN pd.connections :
            l # k => /\ pd.connections[l].from # pd.connections[k].from
                     /\ pd.connections[l].to # pd.connections[k].to
  /\ \E k \in DOMAIN pd.connections, i \in DOMAIN pd.nodes :
       pd.nodes[i].type = "start" /\ pd.connections[k].from = pd.nodes[i].id

\* the nodes n1, ..., nk after the node id of such a chain
RECURSIVE ChainAfter(_, _)
ChainAfter(pd, id) ==
  IF \E k \in DOMAIN pd.connections : pd.connections[k].from = id
    THEN LET c == pd.connections[CHOOSE k \in DOMAIN pd.connections :
                                   pd.connections[k].from = id]
             n == pd.nodes[CHOOSE i \in DOMAIN pd.nodes : pd.nodes[i].id = c.to]
         IN  <<n>> \o ChainAfter(pd, c.to)
    ELSE <<>>

StartId(pd) == pd.nodes[CHOOSE i \in DOMAIN pd.nodes : pd.nodes[i].type = "start"].id

PrimaryPort(pd, id) ==
  NODE_TYPES[pd.nodes[CHOOSE i \in DOMAIN pd.nodes : pd.nodes[i].id = id].type].outputs[1]

\* C10 (as claimed): every connection a linearization follows out of a node
\* leaves the primary forward port of that node's type (next; pass for a gate).
C10_FollowsPrimaryPort ==
  playerLoaded =>
    /\ \A k \in DOMAIN followedA :
         followedA[k].fromPort = PrimaryPort(pathData, followedA[k].from)
    /\ \A k \in DOMAIN followedB :
         followedB[k].fromPort = PrimaryPort(pathData, followedB[k].from)

\* no id occurs twice in the sequence of nodes
NoRepeat(order) ==
  \A i \in DOMAIN order : \A j \in DOMAIN order : i # j => order[i].id # order[j].id

\* the connections of the sequence before the last lead to nodes that no
\* earlier connection of it left or entered
StopsAtFirstRevisit(followed) ==
  \A k \in 1..(Len(followed) - 1) :
    \A l \in 1..k : followed[k].to # followed[l].from

\* C11: linearization ends on every finite graph, cycles included: the walk
\* follows at most one connection per node, no connection but the last leads
\* to a node already visited, and the order holds no node twice.
C11_LinearizationStopsAtRevisit ==
  playerLoaded =>
    /\ Len(followedA) <= Len(pathData.nodes) /\ Len(followedB) <= Len(pathData.nodes)
    /\ StopsAtFirstRevisit(followedA) /\ StopsAtFirstRevisit(followedB)
    /\ NoRepeat(orderedNodesA) /\ NoRepeat(orderedNodesB)

\* C11 witness: a loaded path whose walk ran into a cycle: the last connection
\* followed leads back to the node it leaves.
C11_Witness ==
  /\ playerLoaded
  /\ Len(followedA) = 2 /\ Len(followedB) = 2
  /\ followedA[2].to = followedA[1].to
  /\ followedB[2].to = followedB[1].to
  /\ Len(orderedNodesA) = 1


(***************************************************************************)
(* player.js, first player: the session.  A handler is an operator on the  *)
(* record st = [currentIndex, nodeStates, calls, progress]; calls are the  *)
(* sendXapi calls the handler makes, in order, progress the width the      *)
(* progress bar has; t is the clock the handler reads.                     *)
(***************************************************************************)
\* the remainder operator of JavaScript: the sign of the dividend
JsRem(a, b) == IF a >= 0 THEN a % b ELSE 0 - ((0 - a) % b)

\* new Date().toISOString() at clock t, and new Date(iso).getTime()
ToISOString(t) == <<"iso", t>>
GetTime(iso) == iso[2]

\* formatDuration(start, end): the fragments of the ISO-8601 duration
formatDuration(start, end) ==
  LET ms == end - start
      secs == ms \div 1000
      mins == secs \div 60
      hours == mins \div 60
  IN  <<"PT">> \o (IF hours # 0 THEN <<hours, "H">> ELSE <<>>)
      \o <<JsRem(mins, 60), "M", JsRem(secs, 60), "S">>

\* orderedNodes[index], null outside the array
OrderAt(order, index) == IF index + 1 \in DOMAIN order THEN order[index + 1] ELSE Null

\* the node states of the DOMContentLoaded handler's loop
InitNodeStates(order) ==
  [ id \in NodeIds(order) |-> [status |-> "pending", score |-> Null, startTime |-> Null] ]

\* the statement a sendXapi call hands over: verb, node id, result
XapiCall(verb, node, res) == [verb |-> verb, nodeId |-> node.id, result |-> res]

\* (variant of markCompleted that sends no statement)
markCompletedSilentA(st, node, t) ==
  IF node = Null THEN st
  ELSE [st EXCEPT !.nodeStates[node.id].status = "completed"]

markCompletedA(st, node, t) ==
  IF node = Null THEN st
  ELSE LET startTime == st.nodeStates[node.id].startTime
           duration == IF startTime # Null
                         THEN formatDuration(GetTime(startTime), t) ELSE Null
       IN  [st EXCEPT !.nodeStates[node.id].status = "completed",
                      !.calls = Append(@, XapiCall("completed", node,
                                  [completion |-> TRUE, duration |-> duration]))]

\* renderContent: its effect on the session (the End branch)
renderContentA(st, node, t) ==
  IF node.type = "end"
    THEN LET done == markCompletedA(st, node, t)
         IN  [done EXCEPT !.calls =
                Append(@, XapiCall("completed", node, [completion |-> TRUE]))]
    ELSE st

\* updateProgress: the width of the progress bar in percent, as a fraction
updateProgressA(st, order) ==
  LET completed == Cardinality({ id \in DOMAIN st.nodeStates :
                                   st.nodeStates[id].status = "completed" })
  IN  IF Len(order) > 0 THEN <<completed * 100, Len(order)>> ELSE <<0, 1>>

\* (variant of navigateTo that sends no launched statement)
navigateToNoLaunchA(st, order, index, t) ==
  IF index < 0 \/ index >= Len(order) THEN st
  ELSE LET previous == OrderAt(order, st.currentIndex)
           left == IF /\ st.currentIndex # index
                      /\ previous # Null
                      /\ st.nodeStates[previous.id].status = "active"
                     THEN markCompletedA(st, previous, t) ELSE st
           node == order[index + 1]
           active == [left EXCEPT !.currentIndex = index,
                                  !.nodeStates[node.id].status = "active",
                                  !.nodeStates[node.id].startTime = ToISOString(t)]
           shown == renderContentA(active, node, t)
       IN  [shown EXCEPT !.progress = updateProgressA(shown, order)]

\* (variant of navigateTo that does not complete the node it leaves)
navigateToNoLeaveA(st, order, index, t) ==
  IF index < 0 \/ index >= Len(order) THEN st
  ELSE LET node == order[index + 1]
           active == [st EXCEPT !.currentIndex = index,
                                !.nodeStates[node.id].status = "active",
                                !.nodeStates[node.id].startTime = ToISOString(t),
                                !.calls = Append(@, XapiCall("launched", node, Null))]
           shown == renderContentA(active, node, t)
       IN  [shown EXCEPT !.progress = updateProgressA(shown, order)]

\* (variant of navigateTo that leaves the visited node's state alone)
navigateToNoActivateA(st, order, index, t) ==
  IF index < 0 \/ index >= Len(order) THEN st
  ELSE LET shown == renderContentA([st EXCEPT !.currentIndex = index], order[index + 1], t)
       IN  [shown EXCEPT !.progress = updateProgressA(shown, order)]

navigateToA(st, order, index, t) ==
  IF index < 0 \/ index >= Len(order) THEN st
  ELSE LET previous == OrderAt(order, st.currentIndex)
           left == IF /\ st.currentIndex # index
                      /\ previous # Null
                      /\ st.nodeStates[previous.id].status = "active"
                     THEN markCompletedA(st, previous, t) ELSE st
           node == order[index + 1]
           active == [left EXCEPT !.currentIndex = index,
                                  !.nodeStates[node.id].status = "active",
                                  !.nodeStates[node.id].startTime = ToISOString(t),
                                  !.calls = Append(@, XapiCall("launched", node, Null))]
           shown == renderContentA(active, node, t)
       IN  [shown EXCEPT !.progress = updateProgressA(shown, order)]

nextA(st, order, t) ==
  LET current == OrderAt(order, st.currentIndex)
      done == IF current # Null THEN markCompletedA(st, current, t) ELSE st
  IN  IF st.currentIndex < Len(order) - 1
        THEN navigateToA(done, order, st.currentIndex + 1, t) ELSE done

prevA(st, order, t) ==
  IF st.currentIndex > 0 THEN navigateToA(st, order, st.currentIndex - 1, t) ELSE st

\* (variant of passGate that lets the learner on only with a score on record)
passGateScoreCheckedA(st, order, t) ==
  IF st.nodeStates[order[st.currentIndex + 1].id].score # Null
    THEN nextA(st, order, t) ELSE st

passGateA(st, order, t) == nextA(st, order, t)

\* pathData.connections.find((c) => c.from === id && c.fromPort === portName)
FindConn(cs, id, portName) ==
  IF \E k \in DOMAIN cs : cs[k].from = id /\ cs[k].fromPort = portName
    THEN cs[CHOOSE k \in DOMAIN cs :
              /\ cs[k].from = id /\ cs[k].fromPort = portName
              /\ \A l \in 1..(k-1) : ~(cs[l].from = id /\ cs[l].fromPort = portName)]
    ELSE Null

\* orderedNodes.findIndex((n) => n.id === id)
FindIndex(order, id) == FindNode(order, id) - 1

chooseBranchA(st, order, cs, portName, t) ==
  LET node == OrderAt(order, st.currentIndex)
  IN  IF node = Null THEN st
      ELSE LET conn == FindConn(cs, node.id, portName)
           IN  IF conn # Null /\ FindIndex(order, conn.to) >= 0
                 THEN navigateToA(markCompletedA(st, node, t), order,
                                  FindIndex(order, conn.to), t)
                 ELSE nextA(st, order, t)


(***************************************************************************)
(* player.js, second player: the session.  st = [currentIndex, nodeStatus, *)
(* calls, progress]; pd is pathData.                                       *)
(***************************************************************************)
\* pathData.lrsConfig && pathData.lrsConfig.endpoint
HasLrs(pd) == pd.lrsConfig # Null /\ Truthy(pd.lrsConfig.endpoint)

\* the node statuses of the DOMContentLoaded handler's loop
InitNodeStatus(order) ==
  [ id \in NodeIds(order) |-> [status |-> "pending", score |-> Null] ]

\* orderedNodes.find((n) => n.type === 'end')
FindEnd(order) ==
  IF \E i \in DOMAIN order : order[i].type = "end"
    THEN order[CHOOSE i \in DOMAIN order :
                 order[i].type = "end" /\ \A j \in 1..(i-1) : order[j].type # "end"]
    ELSE Null

markNodeCompletedB(st, order, nodeId) ==
  IF nodeId \notin DOMAIN st.nodeStatus THEN st
  ELSE LET done == [st EXCEPT !.nodeStatus[nodeId].status = "completed"]
           node == FindById(order, nodeId)
       IN  IF node # Null
             THEN [done EXCEPT !.calls = Append(@, XapiCall("completed", node, Null))]
             ELSE done

sendXapiPathCompletedB(st, order, pd) ==
  IF ~HasLrs(pd) THEN st
  ELSE IF FindEnd(order) # Null
         THEN [st EXCEPT !.calls = Append(@, XapiCall("completed", FindEnd(order), Null))]
         ELSE st

\* Math.round(completed / total * 100) for non-negative integers
RoundPct(completed, total) == (200 * completed + total) \div (2 * total)

\* updateProgress: the width of the progress bar in percent
updateProgressB(st, order) ==
  LET total == Len(SelectSeq(order, LAMBDA n : n.type # "start"))
      completed == Cardinality({ id \in DOMAIN st.nodeStatus :
                                   st.nodeStatus[id].status \in {"completed", "passed"} })
  IN  IF total > 0 THEN <<RoundPct(completed, total), 1>> ELSE <<0, 1>>

\* navigateTo up to and with its renderContent(node) call; renderContent calls
\* navigateTo(currentIndex + 1) for a Start node
RECURSIVE navigateToB(_, _, _, _)
navigateToB(st, order, pd, index) ==
  IF index < 0 \/ index >= Len(order) THEN st
  ELSE LET previous == OrderAt(order, st.currentIndex)
           left == IF /\ st.currentIndex # index
                      /\ previous # Null
                      /\ previous.id \in DOMAIN st.nodeStatus
                      /\ st.nodeStatus[previous.id].status = "in_progress"
                     THEN markNodeCompletedB(st, order, previous.id) ELSE st
           node == order[index + 1]
           at == [left EXCEPT !.currentIndex = index]
           visited == IF at.nodeStatus[node.id].status = "pending"
                        THEN [at EXCEPT !.nodeStatus[node.id].status = "in_progress",
                                        !.calls = Append(@, XapiCall("launched", node, Null))]
                        ELSE at
           shown == IF node.type = "end"
                      THEN sendXapiPathCompletedB(
                             [visited EXCEPT
                                !.calls = Append(@, XapiCall("completed", node, Null))],
                             order, pd)
                    ELSE IF node.type = "start"
                      THEN navigateToB(visited, order, pd, visited.currentIndex + 1)
                    ELSE visited
       IN  [shown EXCEPT !.progress = updateProgressB(shown, order)]

markCompleteAndNextB(st, order, pd) ==
  navigateToB(markNodeCompletedB(st, order, order[st.currentIndex + 1].id),
              order, pd, st.currentIndex + 1)

prevB(st, order, pd) == navigateToB(st, order, pd, st.currentIndex - 1)

passGateB(st, order, pd) == markCompleteAndNextB(st, order, pd)

chooseBranchB(st, order, pd, branch) == markCompleteAndNextB(st, order, pd)


(***************************************************************************)
(* The session's specification: a page holding one of the paths below is   *)
(* loaded by one of the two player scripts, and the learner uses the       *)
(* controls the page shows while the requests posted are answered or fail. *)
(* inFlight holds the posted requests not answered yet, equal ones once.   *)
(***************************************************************************)
\* the record-store settings of a played path: none, or an endpoint
SessionLrsConfigs == { Null, [endpoint |-> "https://lrs.example/xapi"] }

PathNode(id, type) == [id |-> id, type |-> type, data |-> <<>>]
GateNode(id, requiredScore) ==
  [id |-> id, type |-> "gate", data |-> [requiredScore |-> requiredScore]]
Conn(from, fromPort, to) ==
  [from |-> from, fromPort |-> fromPort, to |-> to, toPort |-> "prev"]

\* the graphs of the played paths: a chain, a gate before the End, a gate as
\* the last node, a branch whose two ports lead into the order, and a branch
\* whose pathB leads to a node outside the order
SessionGraphs ==
  { [ nodes |-> << PathNode("s", "start"), PathNode("t", "theory"), PathNode("e", "end") >>,
      connections |-> << Conn("s", "next", "t"), Conn("t", "next", "e") >> ],
    [ nodes |-> << PathNode("s", "start"), GateNode("g", 100), PathNode("e", "end") >>,
      connections |-> << Conn("s", "next", "g"), Conn("g", "pass", "e") >> ],
    [ nodes |-> << PathNode("s", "start"), PathNode("t", "theory"), GateNode("g", 70) >>,
      connections |-> << Conn("s", "next", "t"), Conn("t", "next", "g") >> ],
    [ nodes |-> << PathNode("s", "start"), PathNode("b", "branch"), PathNode("t", "theory"),
                   PathNode("e", "end") >>,
      connections |-> << Conn("s", "next", "b"), Conn("b", "pathA", "t"),
                         Conn("b", "pathB", "e"), Conn("t", "next", "e") >> ],
    [ nodes |-> << PathNode("s", "start"), PathNode("b", "branch"), PathNode("t", "theory"),
                   PathNode("u", "theory") >>,
      connections |-> << Conn("s", "next", "b"), Conn("b", "pathA", "t"),
                         Conn("b", "pathB", "u") >> ] }

SessionPaths ==
  { [ id |-> "path1", nodes |-> g.nodes, connections |-> g.connections, lrsConfig |-> c ] :
      g \in SessionGraphs, c \in SessionLrsConfigs }

InitPlay ==
  /\ InitEditor /\ InitValidator /\ InitTracker /\ InitStore
  /\ pathData \in SessionPaths
  /\ script \in {"A", "B"}
  /\ playerLoaded = FALSE
  /\ orderedNodesA = <<>> /\ orderedNodesB = <<>>
  /\ followedA = <<>> /\ followedB = <<>>
  /\ currentIndex = 0
  /\ nodeStates = <<>> /\ nodeStatus = <<>>
  /\ emitted = <<>> /\ posted = <<>>
  /\ launched = {}
  /\ inFlight = {}
  /\ progressBar = Null
  /\ lastAction = NoOp

\* the first player's session as a record, no sendXapi call made yet
SessionA ==
  [currentIndex |-> currentIndex, nodeStates |-> nodeStates, calls |-> <<>>,
   progress |-> progressBar]

\* the second player's
SessionB ==
  [currentIndex |-> currentIndex, nodeStatus |-> nodeStatus, calls |-> <<>>,
   progress |-> progressBar]

\* sendXapi of the first player posts when hasLrs && pathData.id
PostsA(calls) == IF HasLrs(pathData) /\ Truthy(pathData.id) THEN calls ELSE <<>>

\* sendXapi of the second player posts verb and nodeId when an endpoint is set
PostsB(calls) == IF HasLrs(pathData) THEN calls ELSE <<>>

\* the ids of the nodes for which the calls hold a launched statement
LaunchedIn(calls) == { calls[k].nodeId : k \in { j \in DOMAIN calls : calls[j].verb = "launched" } }

\* the state a handler of the first player leaves
CommitA(st, call, args) ==
  /\ currentIndex' = st.currentIndex
  /\ nodeStates' = st.nodeStates
  /\ emitted' = st.calls
  /\ launched' = launched \cup LaunchedIn(st.calls)
  /\ posted' = PostsA(st.calls)
  /\ progressBar' = st.progress
  /\ inFlight' = inFlight \cup Range(PostsA(st.calls))
  /\ lastAction' = [call |-> call, args |-> args, outstanding |-> inFlight # {}]
  /\ UNCHANGED << script, nodeStatus, pathData, editorVars, validatorVars, trackerVars, storeVars, callVars >>

\* the state a handler of the second player leaves
CommitB(st, call, args) ==
  /\ currentIndex' = st.currentIndex
  /\ nodeStatus' = st.nodeStatus
  /\ emitted' = st.calls
  /\ launched' = launched \cup LaunchedIn(st.calls)
  /\ posted' = PostsB(st.calls)
  /\ progressBar' = st.progress
  /\ inFlight' = inFlight \cup Range(PostsB(st.calls))
  /\ lastAction' = [call |-> call, args |-> args, outstanding |-> inFlight # {}]
  /\ UNCHANGED << script, nodeStates, pathData, editorVars, validatorVars, trackerVars, storeVars, callVars >>

\* the DOMContentLoaded handler of the first player
LoadA(t) ==
  /\ script = "A" /\ ~playerLoaded
  /\ playerLoaded' = TRUE
  /\ orderedNodesA' = buildNodeOrder(pathData)
  /\ followedA' = IF FindStart(pathData.nodes) = Null THEN <<>>
                  ELSE NodeOrderWalk(pathData).followed
  /\ UNCHANGED << orderedNodesB, followedB >>
  /\ LET order == buildNodeOrder(pathData)
     IN  CommitA(navigateToA([SessionA EXCEPT !.nodeStates = InitNodeStates(order)],
                             order, 0, t),
                 "load", <<>>)

\* the DOMContentLoaded handler of the second player
LoadB ==
  /\ script = "B" /\ ~playerLoaded
  /\ playerLoaded' = TRUE
  /\ orderedNodesB' = buildTraversalOrder(pathData)
  /\ followedB' = IF FindStart(pathData.nodes) = Null THEN <<>>
                  ELSE TraversalWalk(pathData).followed
  /\ UNCHANGED << orderedNodesA, followedA >>
  /\ LET order == buildTraversalOrder(pathData)
     IN  CommitB(navigateToB([SessionB EXCEPT !.nodeStatus = InitNodeStatus(order)],
                             order, pathData, 0),
                 "load", <<>>)

\* the node whose content the page shows
CurrentA == OrderAt(orderedNodesA, currentIndex)
CurrentB == OrderAt(orderedNodesB, currentIndex)

ShownA == script = "A" /\ playerLoaded /\ CurrentA # Null
ShownB == script = "B" /\ playerLoaded /\ CurrentB # Null /\ CurrentB.type # "start"

\* first player: the Mark Complete & Continue button, disabled on the last node
ClickNextA(t) ==
  /\ ShownA /\ CurrentA.type # "end"
  /\ currentIndex # Len(orderedNodesA) - 1
  /\ CommitA(nextA(SessionA, orderedNodesA, t), "next", <<>>)
  /\ UNCHANGED << playerLoaded, orderedNodesA, orderedNodesB, followedA, followedB >>

\* first player: the Previous button, disabled on the first node
ClickPrevA(t) ==
  /\ ShownA /\ CurrentA.type # "end"
  /\ currentIndex # 0
  /\ CommitA(prevA(SessionA, orderedNodesA, t), "prev", <<>>)
  /\ UNCHANGED << playerLoaded, orderedNodesA, orderedNodesB, followedA, followedB >>

\* first player: the Continue button of a gate
ClickPassGateA(t) ==
  /\ ShownA /\ CurrentA.type = "gate"
  /\ CommitA(passGateA(SessionA, orderedNodesA, t), "passGate", <<>>)
  /\ UNCHANGED << playerLoaded, orderedNodesA, orderedNodesB, followedA, followedB >>

\* first player: one of the two choices of a branch
ClickBranchA(portName, t) ==
  /\ ShownA /\ CurrentA.type = "branch"
  /\ CommitA(chooseBranchA(SessionA, orderedNodesA, pathData.connections, portName, t),
             "chooseBranch", <<portName>>)
  /\ UNCHANGED << playerLoaded, orderedNodesA, orderedNodesB, followedA, followedB >>

\* first player: a click on the sidebar entry of orderedNodes[index]
ClickSidebarA(index, t) ==
  /\ script = "A" /\ playerLoaded
  /\ index \in 0..(Len(orderedNodesA) - 1)
  /\ CommitA(navigateToA(SessionA, orderedNodesA, index, t), "navigateTo", <<index>>)
  /\ UNCHANGED << playerLoaded, orderedNodesA, orderedNodesB, followedA, followedB >>

\* second player: the Mark Complete & Next button, disabled on the last node
ClickMarkCompleteAndNextB ==
  /\ ShownB /\ CurrentB.type # "end"
  /\ currentIndex # Len(orderedNodesB) - 1
  /\ CommitB(markCompleteAndNextB(SessionB, orderedNodesB, pathData), "next", <<>>)
  /\ UNCHANGED << playerLoaded, orderedNodesA, orderedNodesB, followedA, followedB >>

\* second player: the Previous button, disabled on the first shown node
ClickPrevB ==
  /\ ShownB
  /\ IF CurrentB.type = "end" THEN currentIndex # 0
     ELSE ~(currentIndex = 0 \/ (currentIndex = 1 /\ orderedNodesB[1].type = "start"))
  /\ CommitB(prevB(SessionB, orderedNodesB, pathData), "prev", <<>>)
  /\ UNCHANGED << playerLoaded, orderedNodesA, orderedNodesB, followedA, followedB >>

\* second player: the Continue button of a gate
ClickPassGateB ==
  /\ ShownB /\ CurrentB.type = "gate"
  /\ CommitB(passGateB(SessionB, orderedNodesB, pathData), "passGate", <<>>)
  /\ UNCHANGED << playerLoaded, orderedNodesA, orderedNodesB, followedA, followedB >>

\* second player: one of the two choices of a branch
ClickBranchB(branch) ==
  /\ ShownB /\ CurrentB.type = "branch"
  /\ CommitB(chooseBranchB(SessionB, orderedNodesB, pathData, branch),
             "chooseBranch", <<branch>>)
  /\ UNCHANGED << playerLoaded, orderedNodesA, orderedNodesB, followedA, followedB >>

\* second player: a click on a sidebar entry; Start has none
ClickSidebarB(index) ==
  /\ script = "B" /\ playerLoaded
  /\ index \in 0..(Len(orderedNodesB) - 1)
  /\ orderedNodesB[index + 1].type # "start"
  /\ CommitB(navigateToB(SessionB, orderedNodesB, pathData, index), "navigateTo", <<index>>)
  /\ UNCHANGED << playerLoaded, orderedNodesA, orderedNodesB, followedA, followedB >>

\* (variant of the catch block that posts the statement again)
OnFetchRejectedRetry(body) == <<body>>

\* the catch block of sendXapi: the requests it posts
OnFetchRejected(body) == <<>>

\* a posted request is answered: the awaited fetch resolves and sendXapi ends
FetchResolved(body) ==
  /\ body \in inFlight
  /\ inFlight' = inFlight \ {body}
  /\ emitted' = <<>>
  /\ posted' = <<>>
  /\ lastAction' = [call |-> "fetchResolved", args |-> <<>>, outstanding |-> inFlight # {}]
  /\ UNCHANGED << linearVars, script, currentIndex, nodeStates, nodeStatus, progressBar, launched,
                  editorVars, validatorVars, trackerVars, storeVars, callVars >>

\* a posted request fails: the awaited fetch rejects and the catch block runs
FetchRejected(body) ==
  /\ body \in inFlight
  /\ inFlight' = (inFlight \ {body}) \cup Range(OnFetchRejected(body))
  /\ emitted' = <<>>
  /\ posted' = OnFetchRejected(body)
  /\ lastAction' = [call |-> "fetchRejected", args |-> <<>>, outstanding |-> inFlight # {}]
  /\ UNCHANGED << linearVars, script, currentIndex, nodeStates, nodeStatus, progressBar, launched,
                  editorVars, validatorVars, trackerVars, storeVars, callVars >>

\* most entries of an order of the played paths
MaxOrder == 4

NextPlay ==
  \/ \E t \in 0..MaxTime : LoadA(t)
  \/ LoadB
  \/ \E t \in 0..MaxTime : ClickNextA(t)
  \/ \E t \in 0..MaxTime : ClickPrevA(t)
  \/ \E t \in 0..MaxTime : ClickPassGateA(t)
  \/ \E portName \in {"pathA", "pathB"}, t \in 0..MaxTime : ClickBranchA(portName, t)
  \/ \E index \in 0..(MaxOrder - 1), t \in 0..MaxTime : ClickSidebarA(index, t)
  \/ ClickMarkCompleteAndNextB
  \/ ClickPrevB
  \/ ClickPassGateB
  \/ \E branch \in {"pathA", "pathB"} : ClickBranchB(branch)
  \/ \E index \in 0..(MaxOrder - 1) : ClickSidebarB(index)

\* the session with every posted request still unanswered
SpecPlay == InitPlay /\ [][NextPlay]_vars

NextDelivery ==
  \/ NextPlay
  \/ \E body \in inFlight : FetchResolved(body)
  \/ \E body \in inFlight : FetchRejected(body)

\* the session with requests answered or failing at any time
SpecDelivery == InitPlay /\ [][NextDelivery]_vars


(***************************************************************************)
(* Claims about the session (specification SpecPlay).                      *)
(***************************************************************************)
\* the order and the node statuses of the script that runs
Order == IF script = "A" THEN orderedNodesA ELSE orderedNodesB
Status(id) == IF script = "A" THEN nodeStates[id].status ELSE nodeStatus[id].status
StatusAfter(id) == IF script = "A" THEN nodeStates'[id].status ELSE nodeStatus'[id].status
OrderAfter == IF script = "A" THEN orderedNodesA' ELSE orderedNodesB'

\* the step is a handler that navigated to a valid index of the order
VisitStep ==
  /\ vars' # vars
  /\ playerLoaded'
  /\ Len(OrderAfter) > 0
  /\ \/ lastAction'.call \in {"load", "navigateTo"}
     \/ currentIndex' # currentIndex

\* a statement with the verb for the node is among the calls
Emits(calls, verb, id) == \E k \in DOMAIN calls : calls[k].verb = verb /\ calls[k].nodeId = id

\* the status a visit leaves: active / in_progress, or completed for the End
\* node of the first player, which completes itself when shown
VisitedStatus(node, status) ==
  \/ status \in {"active", "in_progress"}
  \/ script = "A" /\ node.type = "end" /\ status = "completed"

\* C12 (as claimed): after the load every node of the order that was not
\* visited is pending, and every visit of a node makes it active / in_progress
\* and emits a launched statement for it.
C12_VisitActivatesAndLaunches ==
  [][ VisitStep =>
        LET node == OrderAfter[currentIndex' + 1]
        IN  /\ VisitedStatus(node, StatusAfter(node.id))
            /\ Emits(emitted', "launched", node.id)
            /\ lastAction'.call = "load" =>
                 \A k \in (currentIndex' + 2)..Len(OrderAfter) :
                   StatusAfter(OrderAfter[k].id) = "pending" ]_vars

\* C12 (amended): as claimed for the first player; the second player makes a
\* visited node in_progress and emits launched only when the node is pending,
\* and on a later visit keeps its status and emits no launched statement.
C12_VisitOfPendingLaunches ==
  [][ VisitStep =>
        LET node == OrderAfter[currentIndex' + 1]
            pending == lastAction'.call = "load" \/ nodeStatus[node.id].status = "pending"
        IN  /\ (script = "A" \/ pending) =>
                 /\ VisitedStatus(node, StatusAfter(node.id))
                 /\ Emits(emitted', "launched", node.id)
            /\ (script = "B" /\ ~pending) =>
                 /\ ~Emits(emitted', "launched", node.id)
                 /\ \/ nodeStatus'[node.id].status = nodeStatus[node.id].status
                    \/ /\ nodeStatus[node.id].status = "in_progress"
                       /\ nodeStatus'[node.id].status = "completed"
            /\ lastAction'.call = "load" =>
                 \A k \in (currentIndex' + 2)..Len(OrderAfter) :
                   StatusAfter(OrderAfter[k].id) = "pending" ]_vars

\* C12 witness: the learner went on from the first node to a pending one, which
\* is now active / in_progress with its launched statement emitted.
C12_Witness ==
  /\ playerLoaded /\ lastAction.call = "next"
  /\ currentIndex > 0
  /\ Status(Order[currentIndex + 1].id) \in {"active", "in_progress"}
  /\ Emits(emitted, "launched", Order[currentIndex + 1].id)

\* the step is a handler by which the learner leaves the current node forward
LeaveStep ==
  /\ vars' # vars
  /\ lastAction'.call \in {"next", "passGate", "chooseBranch"}

\* C13: whenever the learner leaves the current node by forward navigation,
\* gate pass or branch choice, the node becomes completed and a completed
\* statement for it is emitted, with a duration in its result when the node
\* has a start timestamp (only the first player records one).
C13_LeavingCompletes ==
  [][ LeaveStep =>
        LET left == Order[currentIndex + 1]
        IN  /\ StatusAfter(left.id) = "completed"
            /\ \E k \in DOMAIN emitted' :
                 /\ emitted'[k].verb = "completed"
                 /\ emitted'[k].nodeId = left.id
                 /\ (script = "A" /\ nodeStates[left.id].startTime # Null) =>
                      /\ emitted'[k].result # Null
                      /\ emitted'[k].result.duration # Null ]_vars

\* C13 witness: the first player's learner passed a gate that had a start
\* timestamp; its completed statement carries a duration.
C13_Witness ==
  /\ script = "A" /\ lastAction.call = "passGate"
  /\ \E k \in DOMAIN emitted :
       /\ emitted[k].verb = "completed"
       /\ emitted[k].nodeId = "g"
       /\ emitted[k].result.duration = <<"PT", 0, "M", 0, "S">>
  /\ nodeStates["g"].status = "completed"
  /\ nodeStates["g"].startTime # Null

\* the ids of the nodes of the order that are completed, before and after a step
CompletedIds == { Order[k].id : k \in { j \in DOMAIN Order : Status(Order[j].id) = "completed" } }
CompletedIdsAfter ==
  { OrderAfter[k].id : k \in { j \in DOMAIN OrderAfter : StatusAfter(OrderAfter[j].id) = "completed" } }

\* C34: once a node's status is completed it stays completed under every
\* later learner action, so the number of completed nodes never decreases.
C34_CompletionIsPermanent ==
  [][ playerLoaded =>
        /\ CompletedIds \subseteq CompletedIdsAfter
        /\ Cardinality(CompletedIdsAfter) >= Cardinality(CompletedIds) ]_vars

\* the ids of the nodes of the order whose status is active / in_progress
ActiveIds ==
  { Order[k].id : k \in { j \in DOMAIN Order : Status(Order[j].id) \in {"active", "in_progress"} } }

\* C35: in every session state at most one node is active / in_progress, and
\* it is the node at currentIndex; a step that moves currentIndex away from
\* an active node leaves that node completed.
C35_OnlyCurrentNodeActive ==
  /\ [] ((playerLoaded /\ Len(Order) > 0) =>
           /\ Cardinality(ActiveIds) <= 1
           /\ ActiveIds \subseteq {Order[currentIndex + 1].id})
  /\ [][ (playerLoaded /\ Len(Order) > 0 /\ currentIndex' # currentIndex
          /\ Order[currentIndex + 1].id \in ActiveIds)
         => StatusAfter(Order[currentIndex + 1].id) = "completed" ]_vars

\* C35 witness: the learner moved on from a node that was in progress; that
\* node is completed and the node now shown is the only active one.
C35_Witness ==
  /\ playerLoaded /\ currentIndex > 0
  /\ lastAction.call \in {"next", "navigateTo", "prev"}
  /\ ActiveIds = {Order[currentIndex + 1].id}
  /\ \E k \in DOMAIN Order : k # currentIndex + 1 /\ Status(Order[k].id) = "completed"

\* the k-th call of a handler's calls reports a node completed that no earlier
\* call of the handler and no earlier handler reported launched
CompletedUnlaunched(calls, k) ==
  /\ calls[k].verb = "completed"
  /\ calls[k].nodeId \notin launched
  /\ ~\E j \in 1..(k - 1) : calls[j].verb = "launched" /\ calls[j].nodeId = calls[k].nodeId

\* C36: in the statements a session emits, every completed statement for a
\* node is preceded by a launched statement for the same node.
C36_CompletedAfterLaunched ==
  [][ \A k \in DOMAIN emitted' : ~CompletedUnlaunched(emitted', k) ]_vars

\* C36 witness: a handler emitted a completed statement for a node that an
\* earlier handler had reported launched.
C36_Witness ==
  /\ playerLoaded
  /\ \E k \in DOMAIN emitted :
       /\ emitted[k].verb = "completed"
       /\ emitted[k].nodeId \in launched
       /\ ~Emits(emitted, "launched", emitted[k].nodeId)

(***************************************************************************)
(* The statement the server builds for a posted call: part_002, the xAPI   *)
(* route, and part_001, buildActivity and buildPathContext.                *)
(***************************************************************************)
\* `${req.protocol}://${req.get('host')}/learning-paths`
BaseUrl == "https://host/learning-paths"

\* buildActivity: the id of the object of a node's statement
ActivityId(ofPath, node, baseUrl) ==
  IF HasValue(node.data, "activityId") THEN <<node.data.activityId>>
  ELSE <<baseUrl, "/learning-paths/", ofPath, "/nodes/", node.id>>

\* buildPathContext: the id of the activity that stands for the whole path
PathActivityId(ofPath, baseUrl) == <<baseUrl, "/learning-paths/", ofPath>>

\* the xAPI route: the id of the object of the statement built for a call, null
\* when the path has no node with the call's nodeId (404)
StatementObject(pd, call) ==
  IF FindById(pd.nodes, call.nodeId) = Null THEN Null
  ELSE ActivityId(pd.id, FindById(pd.nodes, call.nodeId), BaseUrl)

\* C14 (as claimed): when the session is at the End node, the End node is
\* completed and the handler that reached it emitted a completed statement
\* for the End node and a completed statement whose object is the whole path.
C14_EndEmitsNodeAndPathCompleted ==
  (playerLoaded /\ Len(Order) > 0 /\ Order[currentIndex + 1].type = "end") =>
    LET end == Order[currentIndex + 1]
    IN  /\ Status(end.id) = "completed"
        /\ \E k \in DOMAIN emitted :
             /\ emitted[k].verb = "completed"
             /\ StatementObject(pathData, emitted[k]) = ActivityId(pathData.id, end, BaseUrl)
        /\ \E k \in DOMAIN emitted :
             /\ emitted[k].verb = "completed"
             /\ StatementObject(pathData, emitted[k]) = PathActivityId(pathData.id, BaseUrl)

\* C15 (as claimed): choosing pathA or pathB on a branch node completes the
\* branch node and moves the session to the destination of the connection that
\* leaves the branch node from the chosen port; only without such a connection
\* does the session move to the next node in the order.
C15_BranchFollowsChosenPort ==
  [][ (vars' # vars /\ lastAction'.call = "chooseBranch") =>
        LET branch == Order[currentIndex + 1]
            chosen == { k \in DOMAIN pathData.connections :
                          /\ pathData.connections[k].from = branch.id
                          /\ pathData.connections[k].fromPort = lastAction'.args[1] }
        IN  /\ StatusAfter(branch.id) = "completed"
            /\ chosen # {} =>
                 \E k \in chosen : Order[currentIndex' + 1].id = pathData.connections[k].to
            /\ chosen = {} => currentIndex' = currentIndex + 1 ]_vars

\* C16: every gate interaction is a pass: passGate completes the gate and
\* moves the session to the next node of the order (it stays where it is when
\* the gate is the last node), whatever the scores on record and whatever the
\* gate's requiredScore.
C16_GateAlwaysPasses ==
  [][ (vars' # vars /\ lastAction'.call = "passGate") =>
        LET gate == Order[currentIndex + 1]
        IN  /\ StatusAfter(gate.id) = "completed"
            /\ Emits(emitted', "completed", gate.id)
            /\ currentIndex' = IF currentIndex < Len(Order) - 1
                                 THEN currentIndex + 1 ELSE currentIndex ]_vars

\* C16 witness: a gate that requires a score of 100 was passed with no score
\* on record for any node, and the session is on the node after it.
C16_Witness ==
  /\ lastAction.call = "passGate"
  /\ currentIndex > 0
  /\ Order[currentIndex].type = "gate"
  /\ Order[currentIndex].data.requiredScore = 100
  /\ Status(Order[currentIndex].id) = "completed"
  /\ \A id \in DOMAIN nodeStates : nodeStates[id].score = Null
  /\ \A id \in DOMAIN nodeStatus : nodeStatus[id].score = Null

\* the entries of the order other than Start, and those of them whose status
\* is completed or passed
Countable == { k \in DOMAIN Order : Order[k].type # "start" }
Done == { k \in Countable : Status(Order[k].id) \in {"completed", "passed"} }

\* C17 (as claimed): in every session state the progress shown is the number
\* of entries of the order other than Start that are completed or passed,
\* divided by the number of entries other than Start (to the nearest percent
\* in the second player, which rounds); it never exceeds 1.
C17_ProgressIsDoneFraction ==
  (playerLoaded /\ progressBar # Null /\ Countable # {}) =>
    LET shown == progressBar[1] * Cardinality(Countable)
        exact == 100 * Cardinality(Done) * progressBar[2]
        gap == IF shown >= exact THEN shown - exact ELSE exact - shown
    IN  /\ IF script = "A" THEN gap = 0 ELSE 2 * gap <= Cardinality(Countable)
        /\ progressBar[1] <= 100 * progressBar[2]


\* ---- delivery of statements ----

\* a step that settles a posted request
SettleStep == vars' # vars /\ lastAction'.call \in {"fetchResolved", "fetchRejected"}

\* a step of a handler of the player
HandlerStep == vars' # vars /\ lastAction'.call \notin {"fetchResolved", "fetchRejected"}

\* the learner's place and records
Learner == << currentIndex, nodeStates, nodeStatus, progressBar >>

\* the sidebar of a loaded player can be used
SidebarUsable ==
  \/ \E index \in 0..(MaxOrder - 1), t \in 0..MaxTime : ENABLED ClickSidebarA(index, t)
  \/ \E index \in 0..(MaxOrder - 1) : ENABLED ClickSidebarB(index)

\* C18: delivery never gates navigation. A handler takes effect in the step
\* it runs in, whatever requests are outstanding: it posts each statement it
\* emits at most once and leaves the earlier requests outstanding; while
\* requests are outstanding the sidebar of a loaded player with nodes stays
\* usable; and a step that settles a request, answered or failed, moves
\* nothing of the learner's state and posts nothing again.
C18_DeliveryNeverGatesNavigation ==
  /\ [](playerLoaded /\ inFlight # {}
          /\ Len(IF script = "A" THEN orderedNodesA ELSE orderedNodesB) > 0
        => SidebarUsable)
  /\ [][ /\ HandlerStep =>
              /\ posted' \in {emitted', <<>>}
              /\ inFlight' = inFlight \cup Range(posted')
         /\ SettleStep =>
              /\ Learner' = Learner
              /\ posted' = <<>>
              /\ inFlight' \subseteq inFlight /\ inFlight' # inFlight ]_vars

\* a navigation took effect and posted while an earlier request was outstanding
C18_Witness ==
  /\ lastAction.call \in {"next", "prev", "passGate", "chooseBranch", "navigateTo",
                          "markCompleteAndNext"}
  /\ lastAction.outstanding
  /\ posted # <<>>
  /\ currentIndex > 0


\* ---- sendStatement and sendStatements ----

\* most requests one run of the tracker issues
MaxRequests == 2

\* an endpoint is the text of the setting, cut into the pieces a URL is read
\* by: a scheme with its colon, the double slash, a host, slashes and segments;
\* the empty text is falsy
IsScheme(tok) == tok \in {"http:", "https:"}

\* lrsConfig.endpoint.replace(/\/?$/, '/'): the text ends with exactly the
\* slash it had, or gets one
EnsureTrailingSlash(endpoint) ==
  IF Len(endpoint) > 0 /\ endpoint[Len(endpoint)] \in {"/", "//"}
  THEN endpoint
  ELSE Append(endpoint, "/")

\* a text new URL() accepts as a base: a scheme, the double slash and a host
IsAbsoluteUrl(text) ==
  /\ Len(text) >= 3
  /\ IsScheme(text[1])
  /\ text[2] = "//"
  /\ ~IsScheme(text[3]) /\ text[3] \notin {"/", "//"}

\* new URL('statements', base) for a base that ends with a slash
NewURL(relative, base) ==
  [protocol |-> base[1], host |-> base[3],
   pathname |-> IF Len(base) = 3 THEN <<"/", relative>>
                ELSE Append(SubSeq(base, 4, Len(base)), relative)]

\* JSON.stringify
JSONStringify(value) == << "json", value >>

\* an optional field of the config: lrsConfig.key || ''
ConfigField(config, name) == IF name \in DOMAIN config THEN config[name] ELSE ""

\* !lrsConfig || !lrsConfig.endpoint
NotConfigured(config) ==
  \/ config = Null
  \/ "endpoint" \notin DOMAIN config
  \/ config.endpoint = <<>>

\* the executor of the promise: the promise it leaves and the requests it
\* writes. A throw inside the executor rejects the promise.
Executor(config, payload) ==
  LET base == EnsureTrailingSlash(config.endpoint) IN
  IF ~IsAbsoluteUrl(base)
  THEN [promise |-> [state |-> "rejected", value |-> [name |-> "TypeError", message |-> "Invalid URL"]],
        requests |-> <<>>]
  ELSE [promise |-> [state |-> "pending"],
        requests |-> << [url |-> NewURL("statements", base),
                         proto |-> IF base[1] = "https:" THEN "https" ELSE "http",
                         method |-> "POST",
                         auth |-> << ConfigField(config, "key"), ConfigField(config, "secret") >>,
                         body |-> JSONStringify(payload)] >>]

\* (variant without the test of the config: the executor always runs, and
\* reading the endpoint of no config throws)
sendStatementUnguarded(config, statement) ==
  IF NotConfigured(config)
  THEN [promise |-> [state |-> "rejected", value |-> [name |-> "TypeError", message |-> "Invalid URL"]],
        requests |-> <<>>]
  ELSE Executor(config, statement)

\* sendStatement(lrsConfig, statement)
sendStatement(config, statement) ==
  IF NotConfigured(config)
  THEN [promise |-> [state |-> "resolved", value |-> [stored |-> FALSE, reason |-> "No LRS configured"]],
        requests |-> <<>>]
  ELSE Executor(config, statement)

\* sendStatements(lrsConfig, statements)
sendStatements(config, statements) ==
  IF NotConfigured(config)
  THEN [promise |-> [state |-> "resolved", value |-> [stored |-> FALSE, reason |-> "No LRS configured"]],
        requests |-> <<>>]
  ELSE Executor(config, statements)

\* the endpoints of the configs tried
TrackerEndpoints ==
  { <<>>,
    << "https:", "//", "lrs.example", "/", "xapi" >>,
    << "https:", "//", "lrs.example", "/", "xapi", "/" >>,
    << "http:", "//", "lrs.example" >>,
    << "lrs.example", "/", "xapi" >>,
    << "https:", "//" >> }

\* the configs tried: none, one without an endpoint, one per endpoint
TrackerConfigs ==
  {Null, [key |-> "k", secret |-> "s"]}
    \cup { [endpoint |-> e] : e \in TrackerEndpoints }
    \cup { [endpoint |-> << "https:", "//", "lrs.example", "/", "xapi" >>, key |-> "k", secret |-> "s"] }

\* the statements sent
TrackerStatements == { [verb |-> "launched"], [verb |-> "completed"] }

\* the answers of the record store and the failures of the connection
StatusCodes == {200, 204, 400, 500}
ErrorMessages == {"connect ECONNREFUSED", "socket hang up"}

\* no call is waiting for its answer
Idle == promise.state # "pending"

\* the state a call leaves
CommitCall(config, out) ==
  /\ lrsConfig' = config
  /\ promise' = out.promise
  /\ requests' = requests \o out.requests
  /\ outcome' = Null
  /\ UNCHANGED << editorVars, validatorVars, playerVars, storeVars, callVars >>

\* a caller calls sendStatement
CallSendStatement(config, statement) ==
  /\ Idle /\ Len(requests) < MaxRequests
  /\ CommitCall(config, sendStatement(config, statement))

\* a caller calls sendStatements
CallSendStatements(config, statements) ==
  /\ Idle /\ Len(requests) < MaxRequests
  /\ CommitCall(config, sendStatements(config, statements))

\* req.on('error'): the connection fails
OnRequestError(message) ==
  /\ promise.state = "pending"
  /\ outcome' = [kind |-> "error", message |-> message]
  /\ promise' = [state |-> "resolved", value |-> [stored |-> FALSE, reason |-> message]]
  /\ UNCHANGED << lrsConfig, requests, editorVars, validatorVars, playerVars, storeVars, callVars >>

\* res.on('end'): the record store answers
OnResponseEnd(statusCode, data) ==
  /\ promise.state = "pending"
  /\ outcome' = [kind |-> "response", statusCode |-> statusCode]
  /\ promise' = [state |-> "resolved",
                 value |-> [stored |-> statusCode >= 200 /\ statusCode < 300,
                            statusCode |-> statusCode, response |-> data]]
  /\ UNCHANGED << lrsConfig, requests, editorVars, validatorVars, playerVars, storeVars, callVars >>

NextTracker ==
  \/ \E config \in TrackerConfigs, statement \in TrackerStatements :
       CallSendStatement(config, statement)
  \/ \E config \in TrackerConfigs, statement \in TrackerStatements :
       CallSendStatements(config, << statement >>)
  \/ \E message \in ErrorMessages : OnRequestError(message)
  \/ \E statusCode \in StatusCodes, data \in {"", "[\"id\"]"} : OnResponseEnd(statusCode, data)

SpecTracker == Init /\ [][NextTracker]_vars


\* a step in which sendStatement or sendStatements is called
CallStep == vars' # vars /\ Idle

\* the value of a call without a record store
NoLrsResult == [stored |-> FALSE, reason |-> "No LRS configured"]

\* C19: a call with a config that is null or has no endpoint returns a
\* promise resolved to {stored: false, reason: "No LRS configured"} and
\* writes no request.
C19_NoConfigResolvesWithoutRequest ==
  [][ (CallStep /\ NotConfigured(lrsConfig'))
        => /\ promise' = [state |-> "resolved", value |-> NoLrsResult]
           /\ requests' = requests ]_vars

\* a call without a config was answered after an earlier call wrote a request
C19_Witness ==
  /\ lrsConfig = Null
  /\ promise = [state |-> "resolved", value |-> NoLrsResult]
  /\ Len(requests) = 1

\* the promise is settled with a failure value
ResolvedAsFailure == promise.state = "resolved" /\ ~promise.value.stored

\* C20: the promise of a configured call is never rejected, and when the
\* delivery fails (connection error, malformed endpoint, answer outside 2xx)
\* it is resolved to {stored: false, reason: <message>}.
C20_FailuresResolveWithReason ==
  /\ promise.state # "rejected"
  /\ ResolvedAsFailure => "reason" \in DOMAIN promise.value


(***************************************************************************)
(* Claims about the editor's interaction modes (specification Spec).       *)
(***************************************************************************)
\* the interaction modes that are active
ActiveModes ==
  { m \in {"DraggingNode", "DrawingConnection", "Panning"} :
      \/ m = "DraggingNode" /\ dragState # Null
      \/ m = "DrawingConnection" /\ connectState # Null
      \/ m = "Panning" /\ panState # Null }

\* C21: at most one of dragState, connectState and panState is non-null in
\* every reachable state of the editor.
C21_AtMostOneModeActive == Cardinality(ActiveModes) <= 1


\* no interaction mode is active and no transient curve is in the layer
EditorIdle ==
  /\ dragState = Null /\ connectState = Null /\ panState = Null
  /\ tempLayer = {}

\* C22: after every pointer-up handled by the canvas the editor is Idle:
\* the three mode variables are null and no connection-temp curve remains,
\* whichever modes were active before.
C22_PointerUpLeavesIdle ==
  [][ (\E target \in Targets : OnSvgMouseUp(target)) => EditorIdle' ]_vars


\* a step in which deleteNode is called for the selected node
DeletesSelected ==
  /\ vars' # vars
  /\ lastOp'.call = "deleteNode"
  /\ selectedNodeId # Null /\ lastOp'.args[1] = selectedNodeId

\* C23: deleting the selected node, by the Delete key or the panel's button,
\* removes it and leaves no selection and no drag, connection-drawing or pan
\* state, also when a drag of the node is in progress.
C23_DeleteSelectedLeavesIdle ==
  [][ DeletesSelected
        => /\ lastOp'.args[1] \notin NodeIds(nodes')
           /\ selectedNodeId' = Null
           /\ dragState' = Null /\ connectState' = Null /\ panState' = Null ]_vars


(***************************************************************************)
(* Dragging: the pointer handlers over a path of two connected nodes, with *)
(* pointer positions that move a node.                                     *)
(***************************************************************************)
\* where the pointer can be while dragging
DragPts == { <<90, 27>>, <<100, 27>>, <<90, 37>> }

\* the paths dragged in: two nodes joined by a connection; in the second the
\* two nodes were given the same id
DragLayouts ==
  { << NewNode(NodeId(0, 1), "theory", 0, 0), NewNode(NodeId(1, 1), "end", 0, 0) >>,
    << NewNode(NodeId(0, 1), "theory", 0, 10), NewNode(NodeId(0, 1), "end", 0, 0) >> }

InitDrag ==
  /\ nodes \in DragLayouts
  /\ connections = << [from |-> nodes[1].id, fromPort |-> "next",
                       to |-> nodes[2].id, toPort |-> "prev"] >>
  /\ selectedNodeId = Null /\ panel = Null
  /\ dragState = Null /\ connectState = Null /\ panState = Null
  /\ dirty = FALSE /\ lastOp = NoOp
  /\ tempLayer = {} /\ zoom = ZoomScale
  /\ InitValidator /\ InitPlayer /\ InitSession /\ InitTracker /\ InitStore

NextDrag ==
  \/ \E target \in BodyTargets \cup PortTargets, pt \in DragPts : OnNodeMouseDown(target, pt)
  \/ \E pt \in DragPts : OnSvgMouseDown(pt)
  \/ \E pt \in DragPts : OnSvgMouseMove(pt)
  \/ \E target \in Targets : OnSvgMouseUp(target)

SpecDrag == InitDrag /\ [][NextDrag]_vars

\* the node a move step moved: the first with the dragged id
MovedIndex == FindNode(nodes, lastOp'.args[1])

\* C24: a pointer-move while dragging changes only the x and y of the
\* dragged node: the number of nodes, every node's id, type and data, the
\* other nodes' positions and the connection list stay as they were.
C24_MoveChangesOnlyPosition ==
  [][ (vars' # vars /\ lastOp'.call = "moveNode")
        => /\ connections' = connections
           /\ Len(nodes') = Len(nodes)
           /\ MovedIndex # 0
           /\ \A k \in DOMAIN nodes :
                /\ nodes'[k].id = nodes[k].id
                /\ nodes'[k].type = nodes[k].type
                /\ nodes'[k].data = nodes[k].data
                /\ k # MovedIndex => nodes'[k] = nodes[k] ]_vars

\* a node was dragged away from where the other node stays
C24_Witness ==
  /\ lastOp.call = "moveNode"
  /\ dragState # Null
  /\ \E i, k \in DOMAIN nodes :
       /\ i # k /\ nodes[i].id = dragState.nodeId
       /\ << nodes[i].x, nodes[i].y >> # << nodes[k].x, nodes[k].y >>
       /\ connections # <<>>


(***************************************************************************)
(* removeConnection applied to any connection list with any arguments.     *)
(***************************************************************************)
\* most connections of the lists removeConnection is applied to
MaxRemoveConns == 3

\* the nodes of the path: a gate, a theory unit and the end
RemoveNodes ==
  << NewNode(NodeId(0, 1), "gate", 0, 0), NewNode(NodeId(1, 1), "theory", 0, 0),
     NewNode(NodeId(2, 1), "end", 0, 0) >>

\* the connections the lists are made of: from the gate's two outputs
RemoveConns ==
  { [from |-> NodeId(0, 1), fromPort |-> fp, to |-> t, toPort |-> "prev"] :
      fp \in {"pass", "fail"}, t \in {NodeId(1, 1), NodeId(2, 1)} }

\* the lists, as a loaded path can hold them (a connection can be repeated)
RemoveLists ==
  UNION { [1..n -> RemoveConns] : n \in 0..MaxRemoveConns }

\* the arguments tried: every connection of the lists and some of none
RemoveArgs ==
  { << f, fp, t, "prev" >> :
      f \in {NodeId(0, 1), NodeId(1, 1)}, fp \in {"pass", "fail"},
      t \in {NodeId(1, 1), NodeId(2, 1)} }

InitRemove ==
  /\ nodes = RemoveNodes
  /\ connections \in RemoveLists
  /\ selectedNodeId = Null /\ panel = Null
  /\ dragState = Null /\ connectState = Null /\ panState = Null
  /\ dirty = FALSE /\ lastOp = NoOp
  /\ tempLayer = {} /\ zoom = ZoomScale
  /\ InitValidator /\ InitPlayer /\ InitSession /\ InitTracker /\ InitStore

\* a call of removeConnection
CallRemoveConnection(a) ==
  /\ RemoveConnection(a[1], a[2], a[3], a[4])
  /\ UNCHANGED << modeVars, zoom, validatorVars, playerVars, trackerVars, storeVars, callVars >>

NextRemove == \E a \in RemoveArgs : CallRemoveConnection(a)

SpecRemove == InitRemove /\ [][NextRemove]_vars

\* the four components of a connection
ConnKey(c) == << c.from, c.fromPort, c.to, c.toPort >>

\* C25: removeConnection removes exactly the connections equal to its
\* arguments in all four components and keeps the others in their order;
\* applied when there is none, as after a first application, it leaves the
\* list as it is.
C25_RemoveConnectionIdempotent ==
  [][ (vars' # vars /\ lastOp'.call = "removeConnection")
        => /\ \A i \in DOMAIN connections' : ConnKey(connections'[i]) # lastOp'.args
           /\ connections' = SelectSeq(connections, LAMBDA c : ConnKey(c) # lastOp'.args)
           /\ (\A i \in DOMAIN connections : ConnKey(connections[i]) # lastOp'.args)
                => connections' = connections ]_vars

\* after a removal a connection stays that differs from the arguments in
\* the output port only
C25_Witness ==
  /\ lastOp.call = "removeConnection"
  /\ \E i \in DOMAIN connections :
       /\ connections[i].from = lastOp.args[1] /\ connections[i].to = lastOp.args[3]
       /\ connections[i].fromPort # lastOp.args[2]


(***************************************************************************)
(* Zoom: the wheel handler and the zoom controls.  The zoom factor is kept *)
(* in thousandths, each product rounded to the nearest thousandth; the     *)
(* camera rectangle (viewBox) is not part of the model, the width and      *)
(* height zoomFit gives it are computed where they are used.               *)
(***************************************************************************)
\* a / b rounded to the nearest integer (a >= 0, b > 0)
RoundDiv(a, b) == (2 * a + b) \div (2 * b)

Min2(a, b) == IF a <= b THEN a ELSE b
Max2(a, b) == IF a >= b THEN a ELSE b

\* 0.2 and 5 in thousandths
ZoomMin == ZoomScale \div 5
ZoomMax == 5 * ZoomScale

\* Math.max(0.2, Math.min(5, z))
ClampZoom(z) == Max2(ZoomMin, Min2(ZoomMax, z))

\* onSvgWheel: delta is 1.1 for deltaY > 0 and 0.9 otherwise; the new zoom
\* is zoom * (1 / delta), clamped
WheelZoom(z, deltaY) ==
  ClampZoom(IF deltaY > 0 THEN RoundDiv(z * 10, 11) ELSE RoundDiv(z * 10, 9))

\* setZoom(newZoom)
SetZoom(newZoom) == ClampZoom(newZoom)

\* the padding of zoomFit
FitPad == 80

\* zoomFit's viewBox.w and viewBox.h over the nodes ns
FitWidth(ns) ==
  LET xs == { ns[i].x : i \in DOMAIN ns }
      minX == CHOOSE v \in xs : \A w \in xs : v <= w
      maxX == CHOOSE v \in xs : \A w \in xs : v >= w
  IN  (maxX + NODE_W) - minX + FitPad * 2
FitHeight(ns) ==
  LET ys == { ns[i].y : i \in DOMAIN ns }
      minY == CHOOSE v \in ys : \A w \in ys : v <= w
      maxY == CHOOSE v \in ys : \A w \in ys : v >= w
  IN  (maxY + NODE_H) - minY + FitPad * 2

\* zoomFit: Math.min(rect.width / viewBox.w, rect.height / viewBox.h)
FitZoom(ns, rect) ==
  Min2(RoundDiv(rect[1] * ZoomScale, FitWidth(ns)), RoundDiv(rect[2] * ZoomScale, FitHeight(ns)))

\* the wheel turns over the canvas
OnSvgWheel(deltaY) ==
  /\ zoom' = WheelZoom(zoom, deltaY)
  /\ UNCHANGED << graphVars, modeVars, tempLayer, lastOp, validatorVars, playerVars, trackerVars, storeVars, callVars >>

\* the + button
ZoomIn ==
  /\ zoom' = SetZoom(RoundDiv(zoom * 125, 100))
  /\ UNCHANGED << graphVars, modeVars, tempLayer, lastOp, validatorVars, playerVars, trackerVars, storeVars, callVars >>

\* the - button
ZoomOut ==
  /\ zoom' = SetZoom(RoundDiv(zoom * 100, 125))
  /\ UNCHANGED << graphVars, modeVars, tempLayer, lastOp, validatorVars, playerVars, trackerVars, storeVars, callVars >>

\* the Fit button, the svg element measuring rect; nothing happens on a path
\* without nodes
ZoomFit(rect) ==
  /\ zoom' = IF Len(nodes) = 0 THEN zoom ELSE FitZoom(nodes, rect)
  /\ UNCHANGED << graphVars, modeVars, tempLayer, lastOp, validatorVars, playerVars, trackerVars, storeVars, callVars >>

\* the sizes of the svg element: a small and a large window
SvgRects == { <<1200, 700>>, <<2400, 1300>> }

\* the paths zoomed: none, one node, two nodes side by side, two far apart
ZoomLayouts ==
  { <<>>,
    << NewNode(NodeId(0, 1), "start", 0, 0) >>,
    << NewNode(NodeId(0, 1), "start", 0, 0), NewNode(NodeId(1, 1), "end", 400, 0) >>,
    << NewNode(NodeId(0, 1), "start", 0, 0), NewNode(NodeId(1, 1), "end", 9000, 0) >> }

InitZoom ==
  /\ nodes \in ZoomLayouts
  /\ connections = <<>>
  /\ selectedNodeId = Null /\ panel = Null
  /\ dragState = Null /\ connectState = Null /\ panState = Null
  /\ dirty = FALSE /\ lastOp = NoOp
  /\ tempLayer = {} /\ zoom = ZoomScale
  /\ InitValidator /\ InitPlayer /\ InitSession /\ InitTracker /\ InitStore

NextZoom ==
  \/ \E deltaY \in {-100, 100} : OnSvgWheel(deltaY)
  \/ ZoomIn
  \/ ZoomOut
  \/ \E rect \in SvgRects : ZoomFit(rect)

SpecZoom == InitZoom /\ [][NextZoom]_vars

\* C26: in every reachable state the zoom factor lies within [0.2, 5].
C26_ZoomWithinRange == ZoomMin <= zoom /\ zoom <= ZoomMax


\* a step in which deleteNode(nodeId) was called
DeleteStep(nodeId) == lastOp' = [call |-> "deleteNode", args |-> <<nodeId>>] /\ vars' # vars

\* both deletion routes are offered for the selected node
DeletionOffered == ENABLED OnKeyDelete /\ ENABLED OnPanelDelete

\* C33: cardinality rules constrain creation only: whichever node of the path
\* is selected, the only Start node included, the Delete key and the panel's
\* Delete Node action are both offered, and a deleteNode call leaves no node
\* with the id it was given.
C33_AnyNodeDeletableByEveryRoute ==
  /\ [] ((selectedNodeId # Null /\ FindNode(nodes, selectedNodeId) # 0) => DeletionOffered)
  /\ [][ \A i \in DOMAIN nodes :
           DeleteStep(nodes[i].id) => FindNode(nodes', nodes[i].id) = 0 ]_vars


\* no connection of the path leads from a node to itself
NoSelfLoop == \A k \in DOMAIN connections : connections[k].from # connections[k].to

\* the connection gesture in progress ends on the input port target of the
\* node it started from
EndsOnOwnInput(target) ==
  /\ dragState = Null /\ connectState # Null
  /\ target[3] = "input"
  /\ nodes[target[2]].id = connectState.fromNodeId
  /\ OnSvgMouseUp(target)

\* C37: a connection gesture that ends on an input port of the node it
\* started from adds no connection, and no reachable path has a connection
\* whose from is its to.
C37_NoSelfLoopByPointer ==
  /\ [] NoSelfLoop
  /\ [][ \A target \in PortTargets :
           EndsOnOwnInput(target) => (connections' = connections /\ connectState' = Null) ]_vars

\* C37 witness: a path with a connection, and a gesture in progress from the
\* output port of a node that has an input port of its own.
C37_Witness ==
  /\ Len(connections) > 0
  /\ dragState = Null /\ connectState # Null
  /\ \E i \in DOMAIN nodes :
       /\ nodes[i].id = connectState.fromNodeId
       /\ Len(NODE_TYPES[nodes[i].type].inputs) > 0


\* C38: in every reachable state of the editor selectedNodeId is null or the
\* id of a node of the path, and the panel is open exactly for that node.
C38_SelectionIsNodeOfPath ==
  /\ selectedNodeId # Null => FindNode(nodes, selectedNodeId) # 0
  /\ panel # Null => (selectedNodeId # Null /\ panel.nodeId = selectedNodeId)

\* C38 witness: the selected node was deleted from a path that keeps other
\* nodes; the selection is cleared and the panel closed.
C38_Witness ==
  /\ lastOp.call = "deleteNode"
  /\ Len(nodes) > 0
  /\ FindNode(nodes, lastOp.args[1]) = 0
  /\ selectedNodeId = Null /\ panel = Null


(***************************************************************************)
(* storage.js: the file store of learning paths.  A stored document is a   *)
(* record of JSON values; a JSON value carries its kind, so that null, an  *)
(* empty string and an empty array stay apart.                             *)
(***************************************************************************)
JStr(text) == [str |-> text]
\* a string kept character by character (ids, which _filePath sanitizes)
JChars(chars) == [chars |-> chars]
JDate(iso) == [date |-> iso]
JList(list) == [list |-> list]
JObj(obj) == [obj |-> obj]
JNull == [null |-> TRUE]
Undefined == [undefined |-> TRUE]

\* data[name], undefined when the object has no such property
Prop(data, name) == IF name \in DOMAIN data THEN data[name] ELSE Undefined

\* the falsy values: undefined, null and the empty string (an empty array
\* is truthy)
Falsy(v) == v \in {Undefined, JNull, JStr(""), JChars(<<>>)}

\* v || d
OrElse(v, d) == IF Falsy(v) THEN d ELSE v

\* JSON.stringify of an object leaves out the properties that are undefined
DropUndefined(data) ==
  [ k \in { n \in DOMAIN data : data[n] # Undefined } |-> data[k] ]

\* JSON.stringify(pathData, null, 2) and JSON.parse(raw)
StringifyDoc(data) == JSONStringify(DropUndefined(data))
JSONParse(raw) == raw[2]

\* the characters _filePath keeps: [a-zA-Z0-9_-]
SafeChars == {"a", "b", "z", "0", "_", "-"}

\* _filePath(id): the id without the characters outside [a-zA-Z0-9_-]; the
\* file is <safeId>.json in the paths directory
FilePath(id) == SelectSeq(id, LAMBDA c : c \in SafeChars)

\* fs.writeFile and fs.unlink on the directory dir
WriteFile(dir, file, text) == (file :> text) @@ dir
Unlink(dir, file) == [ f \in DOMAIN dir \ {file} |-> dir[f] ]

\* the error of fs.readFile and fs.unlink on a missing file
ENOENT == [code |-> "ENOENT"]

\* get(id): the parsed file, or the error thrown
StorageGet(dir, id) ==
  IF FilePath(id) \in DOMAIN dir
  THEN [value |-> JSONParse(dir[FilePath(id)]), store |-> dir]
  ELSE [error |-> ENOENT, store |-> dir]

\* the pathData object create(data) builds
NewPathData(data, id, now) ==
  [ id |-> JChars(id),
    title |-> OrElse(Prop(data, "title"), JStr("Untitled Learning Path")),
    description |-> OrElse(Prop(data, "description"), JStr("")),
    status |-> JStr("draft"),
    nodes |-> OrElse(Prop(data, "nodes"), JList(<<>>)),
    connections |-> OrElse(Prop(data, "connections"), JList(<<>>)),
    lrsConfig |-> OrElse(Prop(data, "lrsConfig"), JNull),
    createdAt |-> JDate(now),
    updatedAt |-> JDate(now) ]

\* create(data); crypto.randomUUID() returns id and the clock reads now
StorageCreate(dir, data, id, now) ==
  [ value |-> NewPathData(data, id, now),
    store |-> WriteFile(dir, FilePath(id), StringifyDoc(NewPathData(data, id, now))) ]

\* the fields update(id, data) takes from the data when they are not undefined
UpdatableFields == {"title", "description", "status", "nodes", "connections", "lrsConfig"}

\* (variant of the merge that spreads the data over the existing document)
UpdatedDataSpread(existing, data, now) ==
  [ k \in DOMAIN existing \cup DOMAIN data \cup {"updatedAt"} |->
      IF k = "updatedAt" THEN JDate(now)
      ELSE IF k \in DOMAIN data THEN data[k] ELSE existing[k] ]

\* the object update builds: { ...existing, title: ..., updatedAt: now }
UpdatedData(existing, data, now) ==
  [ k \in DOMAIN existing \cup UpdatableFields \cup {"updatedAt"} |->
      IF k = "updatedAt" THEN JDate(now)
      ELSE IF k \in UpdatableFields
        THEN IF Prop(data, k) # Undefined THEN data[k] ELSE Prop(existing, k)
        ELSE existing[k] ]

\* update(id, data)
StorageUpdate(dir, id, data, now) ==
  LET got == StorageGet(dir, id) IN
  IF "error" \in DOMAIN got THEN got
  ELSE [ value |-> UpdatedData(got.value, data, now),
         store |-> WriteFile(dir, FilePath(id), StringifyDoc(UpdatedData(got.value, data, now))) ]

\* delete(id)
StorageDelete(dir, id) ==
  IF FilePath(id) \in DOMAIN dir
  THEN [value |-> Undefined, store |-> Unlink(dir, FilePath(id))]
  ELSE [error |-> ENOENT, store |-> dir]

\* `${v}`: the text of a value in a template
TemplateText(v) ==
  IF "str" \in DOMAIN v THEN v.str
  ELSE IF v = JNull THEN "null"
  ELSE "undefined"

\* (variant of the copy's title without the suffix)
CopyTitleSame(title) == JStr(TemplateText(title))

\* `${original.title} (Copy)`
CopyTitle(title) == JStr(TemplateText(title) \o " (Copy)")

\* duplicate(id)
StorageDuplicate(dir, id, newId, now) ==
  LET got == StorageGet(dir, id) IN
  IF "error" \in DOMAIN got THEN got
  ELSE StorageCreate(dir, [ k \in DOMAIN got.value \cup {"title"} |->
                              IF k = "title" THEN CopyTitle(Prop(got.value, "title"))
                              ELSE got.value[k] ],
                     newId, now)


(***************************************************************************)
(* routes.js: the routes of the paths API.  Each answers with a status and *)
(* a body; response keeps them with the request answered.                  *)
(***************************************************************************)
\* the answer of a route to the request (op, id, body)
Answer(op, id, body, status, value) ==
  [op |-> op, id |-> id, body |-> body, status |-> status, value |-> value]

\* the catch block of the routes that test err.code === 'ENOENT'
CatchNotFound(op, id, body, err) ==
  IF err.code = "ENOENT" THEN Answer(op, id, body, 404, [error |-> "Not found"])
  ELSE Answer(op, id, body, 500, [error |-> err.code])

\* the catch block of the other routes
CatchAny(op, id, body, err) == Answer(op, id, body, 500, [error |-> err.code])

\* GET /api/paths/:id
GetPath(id) ==
  LET got == StorageGet(store, id) IN
  /\ response' = IF "error" \in DOMAIN got THEN CatchNotFound("get", id, Null, got.error)
                 ELSE Answer("get", id, Null, 200, got.value)
  /\ UNCHANGED << store, uuids, editorVars, validatorVars, playerVars, trackerVars, callVars >>

\* POST /api/paths
PostPath(body, newId, now) ==
  LET made == StorageCreate(store, body, newId, now) IN
  /\ newId \notin uuids
  /\ uuids' = uuids \cup {newId}
  /\ store' = made.store
  /\ response' = Answer("create", newId, body, 201, made.value)
  /\ UNCHANGED << editorVars, validatorVars, playerVars, trackerVars, callVars >>

\* PUT /api/paths/:id
PutPath(id, body, now) ==
  LET put == StorageUpdate(store, id, body, now) IN
  /\ store' = put.store
  /\ response' = IF "error" \in DOMAIN put THEN CatchNotFound("update", id, body, put.error)
                 ELSE Answer("update", id, body, 200, put.value)
  /\ UNCHANGED << uuids, editorVars, validatorVars, playerVars, trackerVars, callVars >>

\* DELETE /api/paths/:id
DeletePath(id) ==
  LET del == StorageDelete(store, id) IN
  /\ store' = del.store
  /\ response' = IF "error" \in DOMAIN del THEN CatchNotFound("delete", id, Null, del.error)
                 ELSE Answer("delete", id, Null, 200, [success |-> TRUE])
  /\ UNCHANGED << uuids, editorVars, validatorVars, playerVars, trackerVars, callVars >>

\* POST /api/paths/:id/duplicate
PostDuplicate(id, newId, now) ==
  LET dup == StorageDuplicate(store, id, newId, now) IN
  /\ newId \notin uuids
  /\ uuids' = IF "error" \in DOMAIN dup THEN uuids ELSE uuids \cup {newId}
  /\ store' = dup.store
  /\ response' = IF "error" \in DOMAIN dup THEN CatchAny("duplicate", id, Null, dup.error)
                 ELSE Answer("duplicate", id, Null, 201, dup.value)
  /\ UNCHANGED << editorVars, validatorVars, playerVars, trackerVars, callVars >>

\* the stored lists as validatePath reads them: !nodes and a missing
\* connections list add no node or connection
StoredPath(data) ==
  [ nodes |-> IF Falsy(Prop(data, "nodes")) THEN <<>> ELSE data.nodes.list,
    connections |-> IF Falsy(Prop(data, "connections")) THEN <<>> ELSE data.connections.list ]

\* POST /api/paths/:id/validate
PostValidate(id) ==
  LET got == StorageGet(store, id) IN
  /\ response' = IF "error" \in DOMAIN got THEN CatchAny("validate", id, Null, got.error)
                 ELSE Answer("validate", id, Null, 200, validatePath(StoredPath(got.value)))
  /\ UNCHANGED << store, uuids, editorVars, validatorVars, playerVars, trackerVars, callVars >>

\* the record-store config of a stored path as sendStatement reads it
StoredLrsConfig(data) ==
  IF Falsy(Prop(data, "lrsConfig")) THEN Null ELSE data.lrsConfig.obj

\* the statement the xAPI route builds for a node
RouteStatement(data, verb, node) ==
  [ verb |-> verb,
    object |-> ActivityId(data.id.chars, node, BaseUrl),
    grouping |-> PathActivityId(data.id.chars, BaseUrl) ]

\* the value the promise of sendStatement settles to when the transport
\* ends with ending
Settled(pending, ending) ==
  IF pending.state # "pending" THEN pending
  ELSE IF ending.kind = "error"
    THEN [state |-> "resolved", value |-> [stored |-> FALSE, reason |-> ending.message]]
    ELSE [state |-> "resolved",
          value |-> [stored |-> ending.statusCode >= 200 /\ ending.statusCode < 300,
                     statusCode |-> ending.statusCode, response |-> ""]]

\* POST /api/paths/:id/xapi with body {verb, nodeId}; the transport of the
\* statement ends with ending
PostXapi(id, body, ending) ==
  LET got == StorageGet(store, id) IN
  /\ IF "error" \in DOMAIN got
       THEN /\ response' = CatchAny("xapi", id, body, got.error)
            /\ UNCHANGED trackerVars
       ELSE IF NotConfigured(StoredLrsConfig(got.value))
         THEN /\ response' = Answer("xapi", id, body, 400,
                                    [error |-> "No LRS configured for this learning path"])
              /\ UNCHANGED trackerVars
         ELSE IF FindById(StoredPath(got.value).nodes, body.nodeId) = Null
           THEN /\ response' = Answer("xapi", id, body, 404,
                                      [error |-> "Node not found in learning path"])
                /\ UNCHANGED trackerVars
           ELSE LET statement == RouteStatement(got.value, body.verb,
                                                FindById(StoredPath(got.value).nodes, body.nodeId))
                    sent == sendStatement(StoredLrsConfig(got.value), statement)
                    done == Settled(sent.promise, ending)
                IN  /\ Idle /\ Len(requests) < MaxRequests
                    /\ lrsConfig' = StoredLrsConfig(got.value)
                    /\ requests' = requests \o sent.requests
                    /\ outcome' = IF sent.promise.state = "pending" THEN ending ELSE Null
                    /\ promise' = done
                    /\ response' = IF done.state = "rejected"
                                     THEN Answer("xapi", id, body, 500, [error |-> done.value.message])
                                     ELSE Answer("xapi", id, body, 200,
                                                 [statement |-> statement, lrsResult |-> done.value])
  /\ UNCHANGED << store, uuids, editorVars, validatorVars, playerVars, callVars >>

\* the ids requests are addressed to: the two a path can get, and one that
\* _filePath maps on the first
RouteIds == { <<"a">>, <<"b">>, <<"a", ".">> }

\* the ids crypto.randomUUID returns, each once
UuidPool == { <<"a">>, <<"b">> }

\* the nodes and the connection of the documents posted
StoreNodes == << PathNode("n1", "start"), PathNode("n2", "end") >>
StoreConns == << Conn("n1", "next", "n2") >>

\* the bodies of POST /api/paths: an empty object and a full document that
\* says it is published
CreateBodies ==
  { <<>>,
    [ title |-> JStr("T"), description |-> JStr("D"), status |-> JStr("published"),
      nodes |-> JList(StoreNodes), connections |-> JList(StoreConns),
      lrsConfig |-> JObj([endpoint |-> << "https:", "//", "lrs.example" >>]) ] }

\* the bodies of PUT /api/paths/:id: a status with an id and a createdAt of
\* their own, and a title with null lists
UpdateBodies ==
  { [ status |-> JStr("published"), id |-> JChars(<<"z">>), createdAt |-> JStr("1999") ],
    [ title |-> JStr("U"), nodes |-> JNull, connections |-> JNull ] }

\* the clock reads 0 when a path is posted and MaxTime at the later writes
CreateTime == ToISOString(0)
WriteTime == ToISOString(MaxTime)

\* the store through its five storage routes
NextStore ==
  \/ \E id \in RouteIds : GetPath(id)
  \/ \E body \in CreateBodies, newId \in UuidPool : PostPath(body, newId, CreateTime)
  \/ \E id \in RouteIds, body \in UpdateBodies : PutPath(id, body, WriteTime)
  \/ \E id \in RouteIds : DeletePath(id)
  \/ \E id \in RouteIds, newId \in UuidPool : PostDuplicate(id, newId, WriteTime)

SpecStore == Init /\ [][NextStore]_vars

\* a request body that is a whole document: it has every field of a path
IsDocument(body) == UpdatableFields \subseteq DOMAIN body

\* a step in which GET /api/paths/:id is answered right after the request
\* (op, ...) on the same id was
GetAfter(op) ==
  /\ response # Null /\ response.op = op
  /\ response' # response
  /\ response'.op = "get" /\ response'.id = response.id

\* C27: create(doc) followed by get(id) of the returned id returns the created
\* document, and its title, description, status, nodes, connections and
\* lrsConfig are those of doc.
C27_GetReturnsCreatedDocument ==
  [][ (GetAfter("create") /\ IsDocument(response.body))
        => /\ response'.status = 200
           /\ response'.value = response.value
           /\ \A f \in UpdatableFields : response'.value[f] = response.body[f] ]_vars

\* a step in which PUT /api/paths/:id is answered with the updated document
UpdateStep ==
  /\ response' # Null /\ response'.op = "update" /\ response'.status = 200
  /\ vars' # vars

\* the document in the file of id
StoredDoc(dir, id) == JSONParse(dir[FilePath(id)])

\* C28: update(id, partial) changes the stored document only in the fields
\* present in partial and in updatedAt; fields absent from partial keep their
\* value, id and createdAt stay even when partial carries its own, and a get
\* that follows returns the updated document.
C28_UpdateChangesOnlyPayloadFields ==
  [][ /\ UpdateStep =>
           LET prev == StoredDoc(store, response'.id)
               next == StoredDoc(store', response'.id)
               partial == response'.body
           IN  /\ DOMAIN next = DOMAIN prev
               /\ \A f \in DOMAIN next \ {"updatedAt"} :
                    next[f] = IF f \in UpdatableFields /\ f \in DOMAIN partial
                                THEN partial[f] ELSE prev[f]
               /\ next.updatedAt = JDate(WriteTime)
               /\ response'.value = next
      /\ (GetAfter("update") /\ response.status = 200)
           => (response'.status = 200 /\ response'.value = response.value) ]_vars

\* an update whose payload carried an id and a createdAt of its own was
\* answered with the document under its old id and creation time, and a get
\* of it followed
C28_Witness ==
  /\ response # Null /\ response.op = "get" /\ response.status = 200
  /\ response.value.status = JStr("published")
  /\ response.value.title = JStr("T")
  /\ response.value.id = JChars(FilePath(response.id))
  /\ response.value.createdAt = JDate(CreateTime)
  /\ response.value.updatedAt = JDate(WriteTime)

\* a step in which POST /api/paths/:id/duplicate is answered with the copy
DuplicateStep ==
  /\ response' # Null /\ response'.op = "duplicate" /\ response'.status = 201
  /\ vars' # vars

\* the id of the copy a duplicate step answers with
CopyId == response'.value.id.chars

\* a duplicate step adds one file under a new id, gives the copy the title of
\* the original followed by " (Copy)", and leaves every other file as it was
CopyIsNewAndTitled ==
  /\ FilePath(CopyId) \notin DOMAIN store
  /\ DOMAIN store' = DOMAIN store \cup {FilePath(CopyId)}
  /\ \A f \in DOMAIN store : store'[f] = store[f]
  /\ StoredDoc(store', CopyId).id # StoredDoc(store, response'.id).id
  /\ StoredDoc(store', CopyId).title
       = JStr(StoredDoc(store, response'.id).title.str \o " (Copy)")

\* a list as the copy holds it: a null list of the original becomes empty
ListOrEmpty(v) == IF v = JNull THEN JList(<<>>) ELSE v

\* C29 (as stated): duplicate(id) stores a new document under a new id, titled
\* as the original followed by " (Copy)", with nodes and connections identical
\* to the original's; the original is unchanged.
C29_DuplicateCopiesLists ==
  [][ DuplicateStep =>
        /\ CopyIsNewAndTitled
        /\ StoredDoc(store', CopyId).nodes = StoredDoc(store, response'.id).nodes
        /\ StoredDoc(store', CopyId).connections
             = StoredDoc(store, response'.id).connections ]_vars

\* C29 (amended): the same, with nodes and connections identical to the
\* original's when they are lists and empty lists when the original's are null.
C29_DuplicateCopiesListsOrEmpty ==
  [][ DuplicateStep =>
        /\ CopyIsNewAndTitled
        /\ StoredDoc(store', CopyId).nodes
             = ListOrEmpty(StoredDoc(store, response'.id).nodes)
        /\ StoredDoc(store', CopyId).connections
             = ListOrEmpty(StoredDoc(store, response'.id).connections) ]_vars

\* a copy of a path with two nodes and a connection is stored beside it
C29_Witness ==
  /\ response # Null /\ response.op = "duplicate" /\ response.status = 201
  /\ response.value.title = JStr("T (Copy)")
  /\ response.value.nodes = JList(StoreNodes)
  /\ response.value.connections = JList(StoreConns)
  /\ FilePath(response.id) \in DOMAIN store
  /\ FilePath(response.value.id.chars) \in DOMAIN store
  /\ StoredDoc(store, response.id).title = JStr("T")

\* the bodies of POST /api/paths/:id/xapi
XapiBodies == { [verb |-> "launched", nodeId |-> "n1"], [verb |-> "completed", nodeId |-> "n9"] }

\* how the transport of a statement ends
XapiOutcomes ==
  { [kind |-> "error", message |-> "connect ECONNREFUSED"],
    [kind |-> "response", statusCode |-> 200] }

\* every route that is addressed to a path, over full documents
NextRoutes ==
  \/ \E id \in RouteIds : GetPath(id)
  \/ \E body \in CreateBodies \ {<<>>}, newId \in UuidPool : PostPath(body, newId, CreateTime)
  \/ \E id \in RouteIds, body \in { [title |-> JStr("U")] } : PutPath(id, body, WriteTime)
  \/ \E id \in RouteIds : DeletePath(id)
  \/ \E id \in RouteIds, newId \in UuidPool : PostDuplicate(id, newId, WriteTime)
  \/ \E id \in RouteIds : PostValidate(id)
  \/ \E id \in RouteIds, body \in XapiBodies, ending \in XapiOutcomes : PostXapi(id, body, ending)

SpecRoutes == Init /\ [][NextRoutes]_vars

\* the operations addressed to the id of a path
PathOps == {"get", "update", "delete", "duplicate", "validate", "xapi"}

\* a step that answers an operation addressed to an id without a file
AbsentIdStep ==
  /\ response' # Null /\ response' # response
  /\ response'.op \in PathOps
  /\ FilePath(response'.id) \notin DOMAIN store

\* C30: every operation addressed to a path id that is absent from the store
\* is answered with 404 Not found, never with 500.
C30_AbsentIdAnswersNotFound ==
  [][ AbsentIdStep => response'.status = 404 ]_vars


(***************************************************************************)
(* storage.js update under overlapping calls: update awaits get before it  *)
(* builds and writes the document, so another call can run between its     *)
(* read and its write.                                                     *)
(***************************************************************************)
\* the calls of update that can be in progress together
MaxCalls == 2
UpdateCalls == 1..MaxCalls

\* the call c awaits its writeFile: it has read the file
Reading(c) == c \in DOMAIN updates /\ updates[c].phase = "read"

\* the first half of PUT /api/paths/:id for the call c: storage.update reads
\* the stored document; an absent id is answered at once
BeginUpdate(c, id, body) ==
  LET got == StorageGet(store, id) IN
  /\ c \notin DOMAIN updates
  /\ IF "error" \in DOMAIN got
       THEN /\ response' = CatchNotFound("update", id, body, got.error)
            /\ UNCHANGED updates
       ELSE /\ updates' = (c :> [phase |-> "read", id |-> id, body |-> body,
                                 existing |-> got.value]) @@ updates
            /\ UNCHANGED response
  /\ UNCHANGED << store, uuids, editorVars, validatorVars, playerVars, trackerVars, saveVars >>

\* (variant of the second half that merges the payload into the document
\* stored at the time of the write)
EndUpdateMerging(c, now) ==
  LET call == updates[c]
      updated == UpdatedData(StorageGet(store, call.id).value, call.body, now)
  IN  /\ Reading(c)
      /\ store' = WriteFile(store, FilePath(call.id), StringifyDoc(updated))
      /\ updates' = [updates EXCEPT ![c] = [phase |-> "done", id |-> call.id,
                                            body |-> call.body, existing |-> updated]]
      /\ response' = Answer("update", call.id, call.body, 200, updated)
      /\ UNCHANGED << uuids, editorVars, validatorVars, playerVars, trackerVars, saveVars >>

\* the second half for the call c: the document built from what the call
\* read is written over the file and answered
EndUpdate(c, now) ==
  LET call == updates[c]
      updated == UpdatedData(call.existing, call.body, now)
  IN  /\ Reading(c)
      /\ store' = WriteFile(store, FilePath(call.id), StringifyDoc(updated))
      /\ updates' = [updates EXCEPT ![c] = [phase |-> "done", id |-> call.id,
                                            body |-> call.body, existing |-> updated]]
      /\ response' = Answer("update", call.id, call.body, 200, updated)
      /\ UNCHANGED << uuids, editorVars, validatorVars, playerVars, trackerVars, saveVars >>

\* the payloads of the overlapping calls: each sets a field the other leaves out
RaceBodies == { [status |-> JStr("published")], [title |-> JStr("U")],
                [title |-> JStr("V"), description |-> JStr("E")] }

NextRace ==
  \/ \E body \in CreateBodies, newId \in UuidPool : PostPath(body, newId, CreateTime)
  \/ \E id \in RouteIds : GetPath(id)
  \/ \E c \in UpdateCalls, id \in RouteIds, body \in RaceBodies : BeginUpdate(c, id, body)
  \/ \E c \in UpdateCalls : EndUpdate(c, WriteTime)

SpecRace == Init /\ [][NextRace]_vars

\* no lock: while a call awaits its write, a call that has not started can
\* read the same document
NoUpdateLock ==
  \A c, d \in UpdateCalls :
    (Reading(c) /\ d \notin DOMAIN updates)
      => ENABLED BeginUpdate(d, updates[c].id, [title |-> JStr("U")])

\* a step in which the call c writes
WriteStep(c) == Reading(c) /\ updates'[c].phase = "done"

\* C31: overlapping updates of one id both complete without error, neither
\* waits for the other, and after each write the stored document is the whole
\* document of that write: what the writing call read, with its own payload
\* fields and updatedAt, and nothing of a write made in between.
C31_LaterWriteWinsWhole ==
  /\ [] NoUpdateLock
  /\ [][ \A c \in UpdateCalls : WriteStep(c) =>
           LET read == updates[c].existing
               partial == updates[c].body
               next == StoredDoc(store', updates[c].id)
           IN  /\ response'.status = 200
               /\ DOMAIN next = DOMAIN read
               /\ \A f \in DOMAIN next \ {"updatedAt"} :
                    next[f] = IF f \in DOMAIN partial THEN partial[f] ELSE read[f]
               /\ next = updates'[c].existing ]_vars

\* two calls read the same draft; the first wrote status published, the second
\* wrote its title afterwards, and the stored document is a draft again
C31_Witness ==
  /\ DOMAIN updates = UpdateCalls
  /\ updates[1].phase = "done" /\ updates[2].phase = "done"
  /\ updates[1].id = updates[2].id
  /\ updates[1].existing.status = JStr("published")
  /\ updates[2].body = [title |-> JStr("U")]
  /\ StoredDoc(store, updates[2].id) = updates[2].existing
  /\ StoredDoc(store, updates[2].id).status = JStr("draft")
  /\ StoredDoc(store, updates[2].id).title = JStr("U")


(***************************************************************************)
(* editor.js save(): the editor posts the path when it has no id and puts  *)
(* it under its id otherwise, awaits the answer, takes the id of a created *)
(* path from it and clears dirty.  The request, its handling by the route  *)
(* and the arrival of the answer are separate steps.                       *)
(***************************************************************************)
\* the save requests of a session
MaxSaves == 3

\* JSON.stringify(pathData) as save() sends it; pathData.id is set once an id
\* has been taken from an answer
PathBody ==
  LET fields == [ title |-> JStr("Untitled Learning Path"), description |-> JStr(""),
                  status |-> JStr("draft"), nodes |-> JList(nodes),
                  connections |-> JList(connections), lrsConfig |-> JNull ]
  IN  IF pathId = Null THEN fields ELSE [id |-> JChars(pathId)] @@ fields

\* the nodes and connections of a request body
PathOf(body) == [nodes |-> body.nodes.list, connections |-> body.connections.list]

\* the path in the editor's memory
PathInMemory == [nodes |-> nodes, connections |-> connections]

\* save(), from the Save button or Ctrl+S, up to its fetch
Save ==
  /\ Len(saves) < MaxSaves
  /\ saves' = Append(saves, [ method |-> IF pathId # Null THEN "PUT" ELSE "POST",
                              id |-> pathId, body |-> PathBody,
                              phase |-> "sent", data |-> Null ])
  /\ UNCHANGED << pathId, acked, updates, editorVars, validatorVars, playerVars,
                  trackerVars, storeVars >>

\* the route answers the request k: POST /api/paths creates a document under
\* newId, PUT /api/paths/:id updates the stored one
ServeSave(k, newId, now) ==
  LET req == saves[k]
      made == StorageCreate(store, req.body, newId, now)
      put == StorageUpdate(store, req.id, req.body, now)
      answer == IF req.method = "POST" THEN Answer("create", newId, req.body, 201, made.value)
                ELSE IF "error" \in DOMAIN put
                  THEN CatchNotFound("update", req.id, req.body, put.error)
                  ELSE Answer("update", req.id, req.body, 200, put.value)
  IN  /\ k \in DOMAIN saves
      /\ req.phase = "sent"
      /\ req.method = "POST" => newId \notin uuids
      /\ store' = IF req.method = "POST" THEN made.store ELSE put.store
      /\ uuids' = IF req.method = "POST" THEN uuids \cup {newId} ELSE uuids
      /\ response' = answer
      /\ saves' = [saves EXCEPT ![k].phase = "answered", ![k].data = answer.value]
      /\ UNCHANGED << pathId, acked, updates, editorVars, validatorVars, playerVars, trackerVars >>

\* the answer to the request k arrives: save() resumes after its awaits
SaveDone(k) ==
  LET data == saves[k].data IN
  /\ k \in DOMAIN saves
  /\ saves[k].phase = "answered"
  /\ pathId' = IF pathId = Null /\ "id" \in DOMAIN data /\ ~Falsy(data.id)
                 THEN data.id.chars ELSE pathId
  /\ dirty' = FALSE
  /\ acked' = PathOf(saves[k].body)
  /\ saves' = [saves EXCEPT ![k].phase = "done"]
  /\ UNCHANGED << nodes, connections, selectedNodeId, panel, modeVars, canvasVars, lastOp,
                  updates, validatorVars, playerVars, trackerVars, storeVars >>

NextSave ==
  \/ \E pt \in PointerPts, t \in 0..MaxTime : OnCanvasDrop("theory", pt, t, 1)
  \/ Save
  \/ \E k \in 1..MaxSaves, newId \in UuidPool : ServeSave(k, newId, CreateTime)
  \/ \E k \in 1..MaxSaves : SaveDone(k)

SpecSave == Init /\ [][NextSave]_vars

\* C39: the dirty flag is false only when the path in memory equals the
\* document of the last save the store acknowledged; an edit made while a save
\* is under way is still reported unsaved when that save completes.
C39_CleanMeansSaved == (dirty = FALSE) => (PathInMemory = acked)

\* the documents the store holds
StoredIds == DOMAIN store

\* C40: however many saves are triggered before the first create is answered,
\* the session creates at most one stored document.
C40_AtMostOneDocumentCreated == Cardinality(StoredIds) <= 1

====
